---- MODULE Spec2Model ----
(***************************************************************************)
(* Verification model of the groupResume summarisation pipeline.           *)
(*                                                                         *)
(*   Spec         processFullMode of public/app.js with the token tracker  *)
(*                (Budget Tracker + Chunk Processor + merge call)          *)
(*   SpecTracker  the token tracker of public/app.js on its own            *)
(*   SpecPlan     the count-based chunk planner (slicing loop)             *)
(*   SpecChunk    the token-based planner chunkMessages                    *)
(*   SpecSample   groupIntoBlocks / smartSample                            *)
(*   SpecGroup    groupIntoBlocks with any gap threshold                   *)
(*   SpecCombine  the combined text of the merge endpoint (api/merge.ts)    *)
(*   SpecEndpoint the handler of the summarize endpoint (api/summarize.ts) *)
(*   SpecDays     the day checklist of the group analysis                  *)
(*   SpecLocal    processFull, the chunk loop with a run-local counter     *)
(*   SpecWaitLive waitWithCountdown on its own, its interval firing        *)
(*   SpecMerge    mergeSummaries, batching and single-request variants     *)
(*   SpecMergeLive  SpecMerge with the event loop running every step      *)
(*   SpecQuick    the quick mode of the day summary (processQuick)         *)
(*   SpecReentry  processFullMode entered twice                            *)
(*   SpecStore    the in-memory chat store                                 *)
(*                                                                         *)
(* Time is Date.now() in milliseconds; it advances in steps of TICK_MS.    *)
(***************************************************************************)
EXTENDS Integers, Sequences, FiniteSets, TLC

VARIABLES
  now,             \* Date.now()
  tokensUsed,      \* state.tokensUsed
  tokenResetTime,  \* state.tokenResetTime
  stored,          \* localStorage['groqTokenState']: <<>> or <<entry>>
  progress,        \* state.processingProgress
  pc,              \* per run: position in processFullMode
  chunks,          \* per run: the local chunks array
  idx,             \* per run: the loop variable i (0-based)
  seconds,         \* per run: countdown of the pending waitWithCountdown
  fireAt,          \* per run: time of the next setInterval callback
  request,         \* per run: the external call in flight: <<>> or <<call>>
  thrown,          \* per run: error that left processFullMode as a rejection
  display,         \* what displayResult last showed: <<>> or <<summary>>
  toast,           \* what showToast last showed, or NoValue
  ret,             \* <<value>> returned by the last getAvailableTokens call
  hist,            \* observation record of the run / of the last operation
  pure             \* state of the pure-function specifications

vars == <<now, tokensUsed, tokenResetTime, stored, progress, pc, chunks, idx,
          seconds, fireAt, request, thrown, display, toast, ret, hist, pure>>

trackerVars == <<tokensUsed, tokenResetTime, stored>>
runVars == <<progress, pc, chunks, idx, seconds, fireAt, request, thrown,
            display, toast, hist>>

NoValue == "none"

\* ------------------------------------------------------------------------
\* Program constants (public/app.js)
\* ------------------------------------------------------------------------
GROQ_TPM_LIMIT == 6000
CHUNK_SIZE == 100
WINDOW_MS == 60000
TICK_MS == 1000
COOLDOWN_SECONDS == 60
MERGE_RESERVE == 2000
FULL_MODE_MSGS == 300

\* ------------------------------------------------------------------------
\* Bounds of the model
\* ------------------------------------------------------------------------
MaxTicks == 150        \* the clock stops advancing after MaxTicks ticks
MaxCallTicks == 1      \* an external call returns within MaxCallTicks ticks
MaxRetryCount == 3     \* the observed retry count saturates here
MaxTrackerTicks == 130 \* SpecTracker: the clock stops after this many ticks
MaxUsed == 12000       \* SpecTracker: no recording takes tokensUsed above this
MaxPlanMsgs == 9       \* SpecPlan: messages per input
MaxCapacity == 4       \* SpecPlan: chunk capacities 1..MaxCapacity
MaxChunkMsgs == 4      \* SpecChunk: messages per input
MaxSampleMsgs == 6     \* SpecSample: messages per input
MaxTarget == 5         \* SpecSample: targets 0..MaxTarget
MaxSummaries == 13     \* SpecMerge: partial summaries per input
MaxStoreSteps == 5     \* SpecStore: steps of the clock
MaxChats == 2          \* SpecStore: uploads
MaxReentryTicks == 3   \* SpecReentry: ticks of the clock
ScaledFast == 2        \* SpecQuick: stands for MODEL_LIMITS.fast (80)
ScaledBalanced == 3    \* SpecQuick: stands for MODEL_LIMITS.balanced (120)
ScaledPowerful == 5    \* SpecQuick: stands for MODEL_LIMITS.powerful (250)
ScaledThreshold == 5   \* SpecQuick: stands for FULL_MODE_THRESHOLD (250)

\* ------------------------------------------------------------------------
\* Generic helpers
\* ------------------------------------------------------------------------
Min(a, b) == IF a < b THEN a ELSE b
Max(a, b) == IF a > b THEN a ELSE b

\* Math.ceil(a / b) for a >= 0, b > 0
CeilDiv(a, b) == (a + b - 1) \div b

RECURSIVE SumSeq(_)
SumSeq(s) == IF s = <<>> THEN 0 ELSE Head(s) + SumSeq(Tail(s))

RECURSIVE Flatten(_)
Flatten(ss) == IF ss = <<>> THEN <<>> ELSE Head(ss) \o Flatten(Tail(ss))

\* Array.prototype.slice(from, to) with 0-based, end-exclusive indices
Slice(s, from, to) ==
  LET lo == Min(Max(from, 0), Len(s))
      hi == Min(Max(to, 0), Len(s))
  IN  IF hi <= lo THEN <<>> ELSE [k \in 1..(hi - lo) |-> s[lo + k]]

\* ------------------------------------------------------------------------
\* Token tracking (public/app.js)
\* A tracker value is [used, reset, stored]: state.tokensUsed,
\* state.tokenResetTime and the localStorage entry.
\* ------------------------------------------------------------------------
Tracker == [used |-> tokensUsed, reset |-> tokenResetTime, stored |-> stored]

\* saveTokenState()
SaveTokenState(tr) ==
  [tr EXCEPT !.stored = <<[tokensUsed |-> tr.used, resetTime |-> tr.reset]>>]

\* (mutant: the saved state is restored whatever its reset time)
LoadTokenStateKeepsExpired(tr, t) ==
  IF tr.stored = <<>> THEN tr
  ELSE [tr EXCEPT !.used = tr.stored[1].tokensUsed, !.reset = tr.stored[1].resetTime]

\* loadTokenState() at time t
LoadTokenState(tr, t) ==
  IF tr.stored = <<>> THEN tr
  ELSE LET data == tr.stored[1]
       IN  IF t > data.resetTime
           THEN [tr EXCEPT !.used = 0, !.reset = 0]
           ELSE [tr EXCEPT !.used = data.tokensUsed, !.reset = data.resetTime]

\* (mutant: the tokens are added but no window is started)
UpdateTokensUsedNoWindow(tr, tokens, t) ==
  SaveTokenState([tr EXCEPT !.used = tr.used + tokens])

\* (mutant: every recording starts a new window)
UpdateTokensUsedRestarts(tr, tokens, t) ==
  SaveTokenState([tr EXCEPT !.used = tr.used + tokens, !.reset = t + WINDOW_MS])

\* (mutant: the count of the last call replaces the running total)
UpdateTokensUsedOverwrites(tr, tokens, t) ==
  LET added == [tr EXCEPT !.used = tokens]
      timed == IF added.reset < t THEN [added EXCEPT !.reset = t + WINDOW_MS]
               ELSE added
  IN  SaveTokenState(timed)

\* updateTokensUsed(tokens) at time t (updateTokenBar changes nothing here:
\* the window it reads has just been set or is still running)
UpdateTokensUsed(tr, tokens, t) ==
  LET added == [tr EXCEPT !.used = tr.used + tokens]
      timed == IF added.reset < t THEN [added EXCEPT !.reset = t + WINDOW_MS]
               ELSE added
  IN  SaveTokenState(timed)

\* (mutant: the window is taken to have expired at its reset time already)
AfterGetAvailableEager(tr, t) ==
  IF t >= tr.reset THEN SaveTokenState([tr EXCEPT !.used = 0, !.reset = 0])
  ELSE tr

\* getAvailableTokens() at time t: the tracker it leaves behind ...
AfterGetAvailable(tr, t) ==
  IF t > tr.reset THEN SaveTokenState([tr EXCEPT !.used = 0, !.reset = 0])
  ELSE tr

\* ... and the value it returns
GetAvailableTokens(tr, t) == GROQ_TPM_LIMIT - AfterGetAvailable(tr, t).used

\* getSecondsUntilReset() at time t
GetSecondsUntilReset(tr, t) ==
  IF tr.reset <= t THEN 0 ELSE CeilDiv(tr.reset - t, TICK_MS)

SetTracker(tr) ==
  /\ tokensUsed' = tr.used
  /\ tokenResetTime' = tr.reset
  /\ stored' = tr.stored

\* ------------------------------------------------------------------------
\* Count-based chunk planner: the slicing loop of processFullMode
\*   for (let i = 0; i < messages.length; i += size)
\*     chunks.push(messages.slice(i, i + size));
\* A planner state is [messages, size, i, chunks].
\* ------------------------------------------------------------------------
SliceInit(messages, size) ==
  [messages |-> messages, size |-> size, i |-> 0, chunks |-> <<>>]

SliceMore(st) == st.i < Len(st.messages)

\* (mutant: the loop steps one message too far)
SliceStepSkips(st) ==
  [st EXCEPT !.chunks = Append(st.chunks, Slice(st.messages, st.i, st.i + st.size)),
             !.i = st.i + st.size + 1]

SliceStep(st) ==
  [st EXCEPT !.chunks = Append(st.chunks, Slice(st.messages, st.i, st.i + st.size)),
             !.i = st.i + st.size]

RECURSIVE SliceLoop(_)
SliceLoop(st) == IF SliceMore(st) THEN SliceLoop(SliceStep(st)) ELSE st.chunks

CountChunks(messages, size) == SliceLoop(SliceInit(messages, size))

\* ------------------------------------------------------------------------
\* processFullMode (public/app.js).  A message of the pipeline is its
\* content length; a summary is named after the run and chunk it came from.
\* ------------------------------------------------------------------------
AllRuns == {1, 2}
Runs == {1}

\* estimateTokens(messages)
\* (the reduce is evaluated by halving the index range)
RECURSIVE EstimateRange(_, _, _)
EstimateRange(messages, lo, hi) ==
  IF lo > hi THEN 0
  ELSE IF lo = hi THEN CeilDiv(messages[lo], 4) + 10
  ELSE LET mid == (lo + hi) \div 2
       IN  EstimateRange(messages, lo, mid) + EstimateRange(messages, mid + 1, hi)

EstimateTokens(messages) == EstimateRange(messages, 1, Len(messages))

\* handleSummarize offers the full mode only for a large day
FullModeOffered(messages) ==
  /\ Len(messages) > 0
  /\ \/ EstimateTokens(messages) > GROQ_TPM_LIMIT
     \/ Len(messages) > FULL_MODE_MSGS

\* Days the pipeline is run on: n messages of content length c each
DayShapes == { <<100, 400>>, <<101, 200>>, <<301, 0>> }
Day(shape) == [k \in 1..shape[1] |-> shape[2]]

\* Token counts a successful call reports in stats.tokensUsed
TokenCosts == {900, 5200}

\* Error messages the endpoints answer with (error.error), and the default
\* messages of summarizeMessages / mergeSummaries
SummarizeErrors ==
  { "Rate limit exceeded. Please wait a moment and try again.",
    "Limite de requisições excedido. Aguarde um momento e tente novamente.",
    "Falha ao gerar resumo",
    "Failed to generate summary" }
MergeErrors == { "Rate limit reached", "Falha ao combinar" }

\* message.includes('rate'), message.includes('limit'): case-sensitive
\* ("generate" holds "rate"; "Rate" and "Limite" hold neither word)
IncludesRate(msg) == msg \in { "Failed to generate summary" }
IncludesLimit(msg) ==
  msg \in { "Rate limit exceeded. Please wait a moment and try again.",
            "Rate limit reached",
            "Rate limited" }

\* the test of the catch block of the chunk loop
IsRateLimitError(msg) == IncludesRate(msg) \/ IncludesLimit(msg)

\* (mutant: the catch block without its i--)
RetryIndexSkips(i) == i + 1

\* i-- followed by the loop's i++: the index the loop continues with
RetryIndex(i) == i

\* i++ after a successful chunk
NextIndex(i) == i + 1

Summary(r, k) == [run |-> r, chunk |-> k]
Merged(summaries) == [merged |-> summaries]

Waiting(r) == pc[r] \in {"budgetWait", "cooldown", "mergeWait"}
InFlight(r) == pc[r] \in {"summarize", "merge"}

NewHist == [retries |-> 0, coolFrom |-> 0, calls |-> 0, callsAtEnd |-> 0,
            raised |-> NoValue]

\* updateProgressUI(current, total, status)
UpdateProgressUI(prog, current) == [prog EXCEPT !.current = current]

\* summarizeMessages(chunks[i], true): the request leaves
IssueSummarize(r, i, prog, h) ==
  /\ progress' = UpdateProgressUI(prog, i + 1)
  /\ pc' = [pc EXCEPT ![r] = "summarize"]
  /\ request' = [request EXCEPT ![r] =
                   <<[kind |-> "summarize", chunk |-> i, sentAt |-> now]>>]
  /\ seconds' = [seconds EXCEPT ![r] = 0]
  /\ fireAt' = [fireAt EXCEPT ![r] = 0]
  /\ hist' = [hist EXCEPT ![r] = [h EXCEPT !.calls = h.calls + 1]]

\* mergeSummaries(state.processingProgress.summaries): the request leaves
IssueMerge(r, prog, h) ==
  /\ progress' = prog
  /\ pc' = [pc EXCEPT ![r] = "merge"]
  /\ request' = [request EXCEPT ![r] =
                   <<[kind |-> "merge", summaries |-> prog.summaries, sentAt |-> now]>>]
  /\ seconds' = [seconds EXCEPT ![r] = 0]
  /\ fireAt' = [fireAt EXCEPT ![r] = 0]
  /\ hist' = [hist EXCEPT ![r] = [h EXCEPT !.calls = h.calls + 1]]

\* waitWithCountdown(s, ...): the interval is set, nothing else changes
StartWait(r, kind, s, prog, h) ==
  /\ progress' = prog
  /\ pc' = [pc EXCEPT ![r] = kind]
  /\ request' = [request EXCEPT ![r] = <<>>]
  /\ seconds' = [seconds EXCEPT ![r] = s]
  /\ fireAt' = [fireAt EXCEPT ![r] = now + TICK_MS]
  /\ hist' = [hist EXCEPT ![r] = h]

\* (mutant: the loop head never waits for the budget)
EnterIterationNeverWaits(r, chs, i, tr, prog, h) ==
  LET tr2 == AfterGetAvailable(tr, now)
  IN  /\ SetTracker(tr2)
      /\ idx' = [idx EXCEPT ![r] = i]
      /\ IF i < Len(chs)
         THEN IssueSummarize(r, i, prog, h)
         ELSE IssueMerge(r, UpdateProgressUI(prog, Len(chs)), h)

\* The head of the chunk loop for index i and, past the last chunk, the
\* merge stage; tr, prog and h are the tracker, state.processingProgress and
\* the observation record as the caller leaves them.  Sets the tracker,
\* idx, progress, pc, request, seconds, fireAt and hist.
EnterIteration(r, chs, i, tr, prog, h) ==
  LET available == GetAvailableTokens(tr, now)
      tr2 == AfterGetAvailable(tr, now)
      waitTime == GetSecondsUntilReset(tr2, now)
  IN  /\ SetTracker(tr2)
      /\ idx' = [idx EXCEPT ![r] = i]
      /\ IF i < Len(chs)
         THEN IF available < EstimateTokens(chs[i + 1])
              THEN StartWait(r, "budgetWait", waitTime, prog, h)
              ELSE IssueSummarize(r, i, prog, h)
         ELSE LET shown == UpdateProgressUI(prog, Len(chs))
              IN  IF available < MERGE_RESERVE
                  THEN StartWait(r, "mergeWait", waitTime, shown, h)
                  ELSE IssueMerge(r, shown, h)

\* The mode card 'full' is activated: startSummarization -> processFullMode
Start(r, messages) ==
  /\ pc[r] = "idle"
  /\ FullModeOffered(messages)
  /\ LET chs == CountChunks(messages, CHUNK_SIZE)
         prog == [current |-> 0, total |-> Len(chs), summaries |-> <<>>]
     IN  /\ chunks' = [chunks EXCEPT ![r] = chs]
         /\ EnterIteration(r, chs, 0, Tracker, prog, NewHist)
  /\ UNCHANGED <<now, thrown, display, toast, ret, pure>>

\* (mutant: the answer's token count is not recorded)
SummarizeOkNoRecord(r, tokens) ==
  /\ pc[r] = "summarize"
  /\ LET i == idx[r]
         pushed == [progress EXCEPT !.summaries = Append(@, Summary(r, i + 1))]
         prog == UpdateProgressUI(pushed, i + 1)
         h == [hist[r] EXCEPT !.retries = 0, !.coolFrom = 0, !.raised = NoValue]
     IN  EnterIteration(r, chunks[r], NextIndex(i), Tracker, prog, h)
  /\ UNCHANGED <<now, chunks, thrown, display, toast, ret, pure>>

\* The summarize call of chunk idx[r] answers 200 with tokens used
SummarizeOk(r, tokens) ==
  /\ pc[r] = "summarize"
  /\ LET i == idx[r]
         pushed == [progress EXCEPT !.summaries = Append(@, Summary(r, i + 1))]
         tr == UpdateTokensUsed(Tracker, tokens, now)
         prog == UpdateProgressUI(pushed, i + 1)
         h == [hist[r] EXCEPT !.retries = 0, !.coolFrom = 0, !.raised = NoValue]
     IN  EnterIteration(r, chunks[r], NextIndex(i), tr, prog, h)
  /\ UNCHANGED <<now, chunks, thrown, display, toast, ret, pure>>

\* (mutant: the catch block swallows the error and goes on with the next chunk)
SummarizeFailSwallows(r, e) ==
  /\ pc[r] = "summarize"
  /\ EnterIteration(r, chunks[r], NextIndex(idx[r]), Tracker, progress,
                    [hist[r] EXCEPT !.raised = e])
  /\ UNCHANGED <<now, chunks, thrown, display, toast, ret, pure>>

\* The summarize call of chunk idx[r] fails with message e: the catch block
SummarizeFail(r, e) ==
  /\ pc[r] = "summarize"
  /\ IF IsRateLimitError(e)
     THEN /\ StartWait(r, "cooldown", COOLDOWN_SECONDS, progress,
                       [hist[r] EXCEPT !.retries = Min(@ + 1, MaxRetryCount),
                                       !.coolFrom = now,
                                       !.raised = e])
          /\ UNCHANGED thrown
     ELSE /\ pc' = [pc EXCEPT ![r] = "rejected"]
          /\ thrown' = [thrown EXCEPT ![r] = e]
          /\ request' = [request EXCEPT ![r] = <<>>]
          /\ hist' = [hist EXCEPT ![r] = [hist[r] EXCEPT !.callsAtEnd = hist[r].calls,
                                                  !.raised = e]]
          /\ UNCHANGED <<progress, seconds, fireAt>>
  /\ UNCHANGED <<now, trackerVars, chunks, idx, display, toast, ret, pure>>

\* One callback of the interval of waitWithCountdown, and what follows the
\* await when it resolves
Tick(r) ==
  /\ Waiting(r)
  /\ now >= fireAt[r]
  /\ IF seconds[r] - 1 <= 0
     THEN CASE pc[r] = "budgetWait" ->
                 /\ IssueSummarize(r, idx[r], progress, hist[r])
                 /\ UNCHANGED <<trackerVars, idx>>
            [] pc[r] = "cooldown" ->
                 EnterIteration(r, chunks[r], RetryIndex(idx[r]), Tracker,
                                progress, [hist[r] EXCEPT !.raised = NoValue])
            [] pc[r] = "mergeWait" ->
                 /\ IssueMerge(r, progress, hist[r])
                 /\ UNCHANGED <<trackerVars, idx>>
     ELSE /\ seconds' = [seconds EXCEPT ![r] = seconds[r] - 1]
          /\ fireAt' = [fireAt EXCEPT ![r] = fireAt[r] + TICK_MS]
          /\ progress' = UpdateProgressUI(progress, progress.current)
          /\ UNCHANGED <<trackerVars, idx, pc, request, hist>>
  /\ UNCHANGED <<now, chunks, thrown, display, toast, ret, pure>>

\* The merge call answers 200
MergeOk(r, tokens) ==
  /\ pc[r] = "merge"
  /\ SetTracker(UpdateTokensUsed(Tracker, tokens, now))
  /\ display' = <<Merged(request[r][1].summaries)>>
  /\ pc' = [pc EXCEPT ![r] = "done"]
  /\ request' = [request EXCEPT ![r] = <<>>]
  /\ hist' = [hist EXCEPT ![r].callsAtEnd = hist[r].calls]
  /\ UNCHANGED <<now, progress, chunks, idx, seconds, fireAt, thrown, toast, ret, pure>>

\* The merge call fails with message e
MergeFail(r, e) ==
  /\ pc[r] = "merge"
  /\ toast' = e
  /\ pc' = [pc EXCEPT ![r] = "failed"]
  /\ request' = [request EXCEPT ![r] = <<>>]
  /\ hist' = [hist EXCEPT ![r] = [hist[r] EXCEPT !.callsAtEnd = hist[r].calls,
                                                  !.raised = e]]
  /\ UNCHANGED <<now, trackerVars, progress, chunks, idx, seconds, fireAt, thrown,
                 display, ret, pure>>

\* setInterval(updateTokenBar, 1000): the bar reads getAvailableTokens()
TokenBarTick ==
  /\ SetTracker(AfterGetAvailable(Tracker, now))
  /\ UNCHANGED <<now, runVars, ret, pure>>

\* Time passes while a call or a wait is pending
Advance ==
  /\ now < WINDOW_MS + MaxTicks * TICK_MS
  /\ \E r \in AllRuns : Waiting(r) \/ InFlight(r)
  /\ \A r \in AllRuns : Waiting(r) => now < fireAt[r]
  /\ \A r \in AllRuns : InFlight(r) => now - request[r][1].sentAt < MaxCallTicks * TICK_MS
  /\ now' = now + TICK_MS
  /\ UNCHANGED <<trackerVars, runVars, ret, pure>>

\* What an earlier session may have left in localStorage
StoredStates(t) ==
  { <<>>,
    <<[tokensUsed |-> 0, resetTime |-> 0]>>,
    <<[tokensUsed |-> 5200, resetTime |-> t + 30000]>>,
    <<[tokensUsed |-> 900, resetTime |-> t - TICK_MS]>> }

\* State after init(): loadTokenState() has run
Init ==
  /\ now = WINDOW_MS
  /\ \E s \in StoredStates(now) :
       LET tr == LoadTokenState([used |-> 0, reset |-> 0, stored |-> s], now)
       IN  /\ tokensUsed = tr.used
           /\ tokenResetTime = tr.reset
           /\ stored = tr.stored
  /\ progress = [current |-> 0, total |-> 0, summaries |-> <<>>]
  /\ pc = [r \in AllRuns |-> "idle"]
  /\ chunks = [r \in AllRuns |-> <<>>]
  /\ idx = [r \in AllRuns |-> 0]
  /\ seconds = [r \in AllRuns |-> 0]
  /\ fireAt = [r \in AllRuns |-> 0]
  /\ request = [r \in AllRuns |-> <<>>]
  /\ thrown = [r \in AllRuns |-> NoValue]
  /\ display = <<>>
  /\ toast = NoValue
  /\ ret = <<>>
  /\ hist = [r \in AllRuns |-> NewHist]
  /\ pure = [kind |-> "none"]

Next ==
  \/ \E r \in Runs, shape \in DayShapes : Start(r, Day(shape))
  \/ \E r \in Runs, tokens \in TokenCosts : SummarizeOk(r, tokens)
  \/ \E r \in Runs, e \in SummarizeErrors : SummarizeFail(r, e)
  \/ \E r \in Runs : Tick(r)
  \/ \E r \in Runs, tokens \in TokenCosts : MergeOk(r, tokens)
  \/ \E r \in Runs, e \in MergeErrors : MergeFail(r, e)
  \/ TokenBarTick
  \/ Advance

Spec == Init /\ [][Next]_vars

\* ------------------------------------------------------------------------
\* Claims about processFullMode (checked under Spec)
\* ------------------------------------------------------------------------

\* C1: a chunk whose summarize call keeps failing with a rate-limit error is
\* retried at most a fixed number of times (the recommended ceiling is 2);
\* after that the pipeline stops with a fatal error.  Stated for the retry
\* count of the chunk the loop is at.
C1_RetryCeiling == \A r \in Runs : hist[r].retries <= 2

\* C2: after a failure classified as a rate-limit rejection the run waits
\* the 60 s cooldown and then goes on with the same chunk index, recording
\* nothing meanwhile; the summaries recorded are, at every moment, those of
\* the chunks before the current index, one each and in order.
C2_RetrySameChunk ==
  /\ [](\A r \in Runs :
          pc[r] # "idle" =>
            progress.summaries = [k \in 1..idx[r] |-> Summary(r, k)])
  /\ [][\A r \in Runs :
          pc[r] = "cooldown" =>
            /\ idx'[r] = idx[r]
            /\ progress'.summaries = progress.summaries
            /\ pc'[r] \in {"cooldown", "budgetWait", "summarize"}
            /\ pc'[r] # "cooldown" =>
                 now' >= hist[r].coolFrom + COOLDOWN_SECONDS * TICK_MS]_vars

\* C2 witness: the second chunk failed with a rate-limit error, the cooldown
\* has passed and the call for the same chunk is in flight again.
C2_Witness ==
  /\ pc[1] = "summarize"
  /\ idx[1] = 1
  /\ hist[1].retries = 1
  /\ now >= hist[1].coolFrom + COOLDOWN_SECONDS * TICK_MS
  /\ Len(progress.summaries) = 1

\* C3: once a summarize or merge call has failed with an error that is not
\* classified as a rate-limit rejection, the run is over: no call is in
\* flight or issued afterwards, nothing has been displayed, and what is
\* surfaced (the rejection of processFullMode, or the toast of the merge
\* stage) is the error that call raised.
C3_FatalAborts ==
  \A r \in Runs :
    (hist[r].raised # NoValue /\ ~IsRateLimitError(hist[r].raised)) =>
      /\ pc[r] \in {"rejected", "failed"}
      /\ request[r] = <<>>
      /\ hist[r].calls = hist[r].callsAtEnd
      /\ display = <<>>
      /\ pc[r] = "rejected" => thrown[r] = hist[r].raised
      /\ pc[r] = "failed" => toast = hist[r].raised

\* C3 witness: the second chunk of a run failed with the endpoint's 500
\* message after the first chunk had been summarized.
C3_Witness ==
  /\ pc[1] = "rejected"
  /\ thrown[1] = "Falha ao gerar resumo"
  /\ idx[1] = 1
  /\ Len(progress.summaries) = 1

\* C3 witness of the merge stage is the same case for the merge call.
C3_WitnessMerge == pc[1] = "failed" /\ toast = "Falha ao combinar"

\* C8: merging a list of exactly one summary issues no merge call and
\* returns (displays) that summary unchanged.
C8_SingleSummaryShortcut ==
  \A r \in Runs :
    Len(chunks[r]) = 1 =>
      /\ pc[r] # "merge"
      /\ pc[r] = "done" => display = <<Summary(r, 1)>>

\* ------------------------------------------------------------------------
\* SpecTracker: the token tracker driven by arbitrary callers.  hist is the
\* last operation with the tracker and clock it started from.
\* ------------------------------------------------------------------------
TrackerTokens == {0, 1000, 5000}
TimeSteps == {30 * TICK_MS, 31 * TICK_MS}

Observed(op, tokens) ==
  [op |-> op, used |-> tokensUsed, reset |-> tokenResetTime, at |-> now,
   tokens |-> tokens]

\* updateTokensUsed(tokens) after a successful call
TrUpdate(tokens) ==
  /\ tokensUsed + tokens <= MaxUsed
  /\ SetTracker(UpdateTokensUsed(Tracker, tokens, now))
  /\ hist' = Observed("record", tokens)
  /\ UNCHANGED <<now, ret, progress, pc, chunks, idx, seconds, fireAt, request,
                 thrown, display, toast, pure>>

\* getAvailableTokens()
TrAvailable ==
  /\ SetTracker(AfterGetAvailable(Tracker, now))
  /\ ret' = <<GetAvailableTokens(Tracker, now)>>
  /\ hist' = Observed("available", 0)
  /\ UNCHANGED <<now, progress, pc, chunks, idx, seconds, fireAt, request,
                 thrown, display, toast, pure>>

\* The page is loaded again: fresh state, then init() -> loadTokenState()
TrReload ==
  /\ SetTracker(LoadTokenState([used |-> 0, reset |-> 0, stored |-> stored], now))
  /\ ret' = <<>>
  /\ hist' = Observed("reload", 0)
  /\ UNCHANGED <<now, progress, pc, chunks, idx, seconds, fireAt, request,
                 thrown, display, toast, pure>>

\* Time passes
TrAdvance(d) ==
  /\ now + d <= WINDOW_MS + MaxTrackerTicks * TICK_MS
  /\ now' = now + d
  /\ UNCHANGED <<trackerVars, ret, hist, progress, pc, chunks, idx, seconds,
                 fireAt, request, thrown, display, toast, pure>>

InitTracker ==
  /\ now = WINDOW_MS
  /\ \E s \in StoredStates(now) :
       LET tr == LoadTokenState([used |-> 0, reset |-> 0, stored |-> s], now)
       IN  /\ tokensUsed = tr.used
           /\ tokenResetTime = tr.reset
           /\ stored = tr.stored
  /\ ret = <<>>
  /\ hist = [op |-> "init", used |-> 0, reset |-> 0, at |-> now, tokens |-> 0]
  /\ progress = [current |-> 0, total |-> 0, summaries |-> <<>>]
  /\ pc = [r \in AllRuns |-> "idle"]
  /\ chunks = [r \in AllRuns |-> <<>>]
  /\ idx = [r \in AllRuns |-> 0]
  /\ seconds = [r \in AllRuns |-> 0]
  /\ fireAt = [r \in AllRuns |-> 0]
  /\ request = [r \in AllRuns |-> <<>>]
  /\ thrown = [r \in AllRuns |-> NoValue]
  /\ display = <<>>
  /\ toast = NoValue
  /\ pure = [kind |-> "none"]

NextTracker ==
  \/ \E tokens \in TrackerTokens : TrUpdate(tokens)
  \/ TrAvailable
  \/ TrReload
  \/ \E d \in TimeSteps : TrAdvance(d)

SpecTracker == InitTracker /\ [][NextTracker]_vars

\* C9: getAvailableTokens answers limit - tokensUsed while the window runs
\* and, when now > tokenResetTime, first resets the tracker to EMPTY and
\* answers the whole limit; with 5000 recorded it answers 1000 inside the
\* window and 6000 one second after the 60 s window.
C9_AvailableAnswer ==
  hist.op = "available" =>
    /\ hist.at > hist.reset =>
         ret = <<GROQ_TPM_LIMIT>> /\ tokensUsed = 0 /\ tokenResetTime = 0
    /\ hist.at <= hist.reset =>
         /\ ret = <<GROQ_TPM_LIMIT - hist.used>>
         /\ tokensUsed = hist.used
         /\ tokenResetTime = hist.reset
    /\ (hist.used = 5000 /\ hist.at <= hist.reset) => ret = <<1000>>
    /\ (hist.used = 5000 /\ hist.at = hist.reset + TICK_MS) => ret = <<6000>>

\* C9 witness: 5000 tokens were recorded in a window that ended one second
\* ago (61 s after it began); available() has answered 6000 and the tracker
\* is EMPTY.
C9_Witness ==
  /\ hist.op = "available"
  /\ hist.used = 5000
  /\ hist.reset > 0
  /\ hist.at = hist.reset + TICK_MS
  /\ ret = <<6000>>
  /\ tokensUsed = 0
  /\ tokenResetTime = 0

\* C10: the value getAvailableTokens reports is never negative.
C10_AvailableNonNegative == ret # <<>> => ret[1] >= 0

\* ------------------------------------------------------------------------
\* SpecPlan: the count-based planner on its own, one loop iteration a step.
\* Messages are told apart by their position in the input.
\* ------------------------------------------------------------------------
Idle ==
  /\ now = WINDOW_MS
  /\ tokensUsed = 0
  /\ tokenResetTime = 0
  /\ stored = <<>>
  /\ ret = <<>>
  /\ hist = [op |-> "init", used |-> 0, reset |-> 0, at |-> now, tokens |-> 0]
  /\ progress = [current |-> 0, total |-> 0, summaries |-> <<>>]
  /\ pc = [r \in AllRuns |-> "idle"]
  /\ chunks = [r \in AllRuns |-> <<>>]
  /\ idx = [r \in AllRuns |-> 0]
  /\ seconds = [r \in AllRuns |-> 0]
  /\ fireAt = [r \in AllRuns |-> 0]
  /\ request = [r \in AllRuns |-> <<>>]
  /\ thrown = [r \in AllRuns |-> NoValue]
  /\ display = <<>>
  /\ toast = NoValue

idleVars == <<now, tokensUsed, tokenResetTime, stored, ret, hist, progress, pc,
              chunks, idx, seconds, fireAt, request, thrown, display, toast>>

Ids(n) == [k \in 1..n |-> k]

\* Inputs: up to MaxPlanMsgs messages at capacities 1..MaxCapacity, and the
\* 300 messages at capacity 120 of the example scenario
PlanInputs ==
  { <<n, c>> : n \in 0..MaxPlanMsgs, c \in 1..MaxCapacity } \cup { <<300, 120>> }

InitPlan ==
  /\ Idle
  /\ \E inp \in PlanInputs :
       pure = [kind |-> "plan", st |-> SliceInit(Ids(inp[1]), inp[2]), done |-> FALSE]

\* One iteration of the slicing loop
PlanStep ==
  /\ pure.kind = "plan"
  /\ ~pure.done
  /\ SliceMore(pure.st)
  /\ pure' = [pure EXCEPT !.st = SliceStep(pure.st)]
  /\ UNCHANGED idleVars

\* The loop condition fails: chunks is complete
PlanExit ==
  /\ pure.kind = "plan"
  /\ ~pure.done
  /\ ~SliceMore(pure.st)
  /\ pure' = [pure EXCEPT !.done = TRUE]
  /\ UNCHANGED idleVars

NextPlan == PlanStep \/ PlanExit

SpecPlan == InitPlan /\ [][NextPlan]_vars

\* C4: the count-based planner yields non-empty chunks of at most
\* `capacity` messages, only the last possibly shorter, whose concatenation
\* in chunk order is the input; 300 messages at capacity 120 give chunks of
\* 120, 120 and 60.
C4_CountPlanner ==
  (pure.kind = "plan" /\ pure.done) =>
    LET cs == pure.st.chunks
        msgs == pure.st.messages
        cap == pure.st.size
    IN  /\ cs = CountChunks(msgs, cap)
        /\ \A k \in 1..Len(cs) : Len(cs[k]) >= 1 /\ Len(cs[k]) <= cap
        /\ \A k \in 1..(Len(cs) - 1) : Len(cs[k]) = cap
        /\ Flatten(cs) = msgs
        /\ (Len(msgs) = 300 /\ cap = 120) =>
             [k \in 1..Len(cs) |-> Len(cs[k])] = <<120, 120, 60>>

\* C4 witness: the example scenario has been planned.
C4_Witness ==
  /\ pure.kind = "plan"
  /\ pure.done
  /\ Len(pure.st.messages) = 300
  /\ pure.st.size = 120
  /\ Len(pure.st.chunks) = 3
  /\ Len(pure.st.chunks[3]) = 60

\* ------------------------------------------------------------------------
\* SpecChunk: chunkMessages of services/chunker.ts, one message a step.
\* A message is [id, sender, content] with the lengths of its sender and
\* content; its time is the five characters HH:MM.
\* A planner state is [messages, maxTokens, k, chunks, currentChunk,
\* currentTokens]; k messages have been consumed.
\* ------------------------------------------------------------------------
TIME_CHARS == 5

\* estimateTokens(text) for a text of n characters
EstimateTextTokens(n) == CeilDiv(n, 4)

\* estimateTokens(`[${msg.time}] ${msg.sender}: ${msg.content}`)
MsgTokens(msg) == EstimateTextTokens(1 + TIME_CHARS + 2 + msg.sender + 2 + msg.content)

ChunkInit(messages, maxTokens) ==
  [messages |-> messages, maxTokens |-> maxTokens, k |-> 0, chunks |-> <<>>,
   currentChunk |-> <<>>, currentTokens |-> 0]

ChunkMore(st) == st.k < Len(st.messages)

\* (mutant: the chunk is closed but the message that overflowed it is lost)
ChunkStepDrops(st) ==
  LET msg == st.messages[st.k + 1]
      msgTokens == MsgTokens(msg)
  IN  IF st.currentTokens + msgTokens > st.maxTokens /\ Len(st.currentChunk) > 0
      THEN [st EXCEPT !.chunks = Append(st.chunks, st.currentChunk),
                      !.currentChunk = <<>>,
                      !.currentTokens = 0,
                      !.k = st.k + 1]
      ELSE [st EXCEPT !.currentChunk = Append(st.currentChunk, msg),
                      !.currentTokens = st.currentTokens + msgTokens,
                      !.k = st.k + 1]

\* (mutant: the ceiling is never looked at, every message joins the open chunk)
ChunkStepNeverCloses(st) ==
  LET msg == st.messages[st.k + 1]
      msgTokens == MsgTokens(msg)
  IN  [st EXCEPT !.currentChunk = Append(st.currentChunk, msg),
                 !.currentTokens = st.currentTokens + msgTokens,
                 !.k = st.k + 1]

\* The body of the for loop for the next message
ChunkStep(st) ==
  LET msg == st.messages[st.k + 1]
      msgTokens == MsgTokens(msg)
      closed == IF st.currentTokens + msgTokens > st.maxTokens /\ Len(st.currentChunk) > 0
                THEN [st EXCEPT !.chunks = Append(st.chunks, st.currentChunk),
                                !.currentChunk = <<>>,
                                !.currentTokens = 0]
                ELSE st
  IN  [closed EXCEPT !.currentChunk = Append(closed.currentChunk, msg),
                     !.currentTokens = closed.currentTokens + msgTokens,
                     !.k = st.k + 1]

\* After the loop: the last chunk is pushed and chunks returned
ChunkFinish(st) ==
  IF Len(st.currentChunk) > 0 THEN Append(st.chunks, st.currentChunk) ELSE st.chunks

RECURSIVE ChunkLoop(_)
ChunkLoop(st) == IF ChunkMore(st) THEN ChunkLoop(ChunkStep(st)) ELSE ChunkFinish(st)

\* chunkMessages(messages, maxTokens)
ChunkMessages(messages, maxTokens) ==
  IF Len(messages) = 0 THEN <<>> ELSE ChunkLoop(ChunkInit(messages, maxTokens))

\* Inputs: content of 2 or 30 characters (4 or 11 tokens with a sender of 4
\* characters), ceilings that no message, only the short ones, or any two
\* messages but not three long ones fit in
ChunkContents == {2, 30}
ChunkCeilings == {0, 8, 25}

ChunkInputs ==
  UNION { [1..n -> ChunkContents] : n \in 0..MaxChunkMsgs }

ChunkMsgs(contents) ==
  [k \in 1..Len(contents) |-> [id |-> k, sender |-> 4, content |-> contents[k]]]

InitChunk ==
  /\ Idle
  /\ \E contents \in ChunkInputs, ceiling \in ChunkCeilings :
       pure = [kind |-> "chunk", st |-> ChunkInit(ChunkMsgs(contents), ceiling),
               done |-> FALSE, result |-> <<>>]

\* One iteration of the for loop
ChunkIterate ==
  /\ pure.kind = "chunk"
  /\ ~pure.done
  /\ Len(pure.st.messages) > 0
  /\ ChunkMore(pure.st)
  /\ pure' = [pure EXCEPT !.st = ChunkStep(pure.st)]
  /\ UNCHANGED idleVars

\* chunkMessages returns: at once for an empty input, else after the loop
ChunkReturn ==
  /\ pure.kind = "chunk"
  /\ ~pure.done
  /\ Len(pure.st.messages) = 0 \/ ~ChunkMore(pure.st)
  /\ pure' = [pure EXCEPT !.done = TRUE,
                          !.result = IF Len(pure.st.messages) = 0 THEN <<>>
                                     ELSE ChunkFinish(pure.st)]
  /\ UNCHANGED idleVars

NextChunk == ChunkIterate \/ ChunkReturn

SpecChunk == InitChunk /\ [][NextChunk]_vars

BLOCK_GAP_MINUTES == 5

\* parseTime(msg)
ParseTime(msg) == msg.time[1] * 60 + msg.time[2]

\* Array.prototype.sort with a comparator that subtracts two keys, which
\* is stable: a [key, val] pair is placed before the first pair whose key
\* is strictly greater
RECURSIVE InsertStable(_, _)
InsertStable(sorted, x) ==
  IF sorted = <<>> THEN <<x>>
  ELSE IF x.key < Head(sorted).key THEN <<x>> \o sorted
  ELSE <<Head(sorted)>> \o InsertStable(Tail(sorted), x)

RECURSIVE SortFrom(_, _, _)
SortFrom(pairs, k, acc) ==
  IF k > Len(pairs) THEN acc ELSE SortFrom(pairs, k + 1, InsertStable(acc, pairs[k]))

StableSort(s, keys) ==
  LET pairs == [k \in 1..Len(s) |-> [key |-> keys[k], val |-> s[k]]]
      sorted == SortFrom(pairs, 1, <<>>)
  IN  [k \in 1..Len(s) |-> sorted[k].val]

\* The loop of groupIntoBlocks from message i (1-based) on
\* (mutant: a decrease of the time of day does not start a block)
StartsNewBlockIgnoresRollover(gap, maxGapMinutes) == gap > maxGapMinutes

\* gap > maxGapMinutes || gap < 0
StartsNewBlock(gap, maxGapMinutes) == gap > maxGapMinutes \/ gap < 0

RECURSIVE GroupFrom(_, _, _, _, _)
GroupFrom(messages, maxGapMinutes, i, blocks, currentBlock) ==
  IF i > Len(messages)
  THEN IF Len(currentBlock) > 0 THEN Append(blocks, currentBlock) ELSE blocks
  ELSE LET gap == ParseTime(messages[i]) - ParseTime(messages[i - 1])
       IN  IF StartsNewBlock(gap, maxGapMinutes)
           THEN GroupFrom(messages, maxGapMinutes, i + 1,
                          Append(blocks, currentBlock), <<messages[i]>>)
           ELSE GroupFrom(messages, maxGapMinutes, i + 1,
                          blocks, Append(currentBlock, messages[i]))

\* groupIntoBlocks(messages, maxGapMinutes)
GroupIntoBlocks(messages, maxGapMinutes) ==
  IF Len(messages) = 0 THEN <<>>
  ELSE GroupFrom(messages, maxGapMinutes, 2, <<>>, <<messages[1]>>)

\* (mutant: the block that overflows the budget is taken whole)
PartialTakeWhole(block, room) == block

\* block.slice(0, targetMsgs - totalMsgs)
PartialTake(block, room) == Slice(block, 0, room)

\* (mutant: the block is counted but its messages are not kept)
TakeBlockCountsOnly(sel, block) ==
  [result |-> sel.result, total |-> sel.total + Len(block)]

\* Adding a whole block to the selection [result, total]
TakeBlock(sel, block) ==
  [result |-> sel.result \o block, total |-> sel.total + Len(block)]

\* The loop "fill remaining with largest blocks" from sortedBlocks[k] on
RECURSIVE FillFrom(_, _, _, _, _, _)
FillFrom(sortedBlocks, k, firstBlock, lastBlock, targetMsgs, sel) ==
  IF k > Len(sortedBlocks) THEN sel
  ELSE LET block == sortedBlocks[k]
       IN  IF block = firstBlock \/ block = lastBlock
           THEN FillFrom(sortedBlocks, k + 1, firstBlock, lastBlock, targetMsgs, sel)
           ELSE IF sel.total + Len(block) <= targetMsgs
           THEN FillFrom(sortedBlocks, k + 1, firstBlock, lastBlock, targetMsgs,
                         TakeBlock(sel, block))
           ELSE IF sel.total < targetMsgs
           THEN [sel EXCEPT !.result = sel.result \o PartialTake(block, targetMsgs - sel.total)]
           ELSE FillFrom(sortedBlocks, k + 1, firstBlock, lastBlock, targetMsgs, sel)

\* (a, b) => b.length - a.length
LongerFirst(block) == 0 - Len(block)

\* smartSample(dayMessages, targetMsgs)
SmartSample(dayMessages, targetMsgs) ==
  IF Len(dayMessages) <= targetMsgs THEN dayMessages
  ELSE LET blocks == GroupIntoBlocks(dayMessages, BLOCK_GAP_MINUTES)
           sortedBlocks == StableSort(blocks, [k \in 1..Len(blocks) |-> LongerFirst(blocks[k])])
           firstBlock == blocks[1]
           lastBlock == blocks[Len(blocks)]
           sel0 == [result |-> <<>>, total |-> 0]
           sel1 == IF Len(blocks) > 0 /\ sel0.total + Len(firstBlock) <= targetMsgs
                   THEN TakeBlock(sel0, firstBlock) ELSE sel0
           sel2 == IF /\ Len(blocks) > 0
                      /\ lastBlock # firstBlock
                      /\ sel1.total + Len(lastBlock) <= targetMsgs
                   THEN TakeBlock(sel1, lastBlock) ELSE sel1
           sel3 == IF Len(blocks) > 0
                   THEN FillFrom(sortedBlocks, 1, firstBlock, lastBlock, targetMsgs, sel2)
                   ELSE sel2
           result == sel3.result
       IN  StableSort(result, [k \in 1..Len(result) |-> ParseTime(result[k])])

\* Inputs: up to MaxSampleMsgs messages at 09:00, 09:04 or 09:30 in any
\* order, targets 0..MaxTarget
SampleTimes == { <<9, 0>>, <<9, 4>>, <<9, 30>> }

SampleInputs == UNION { [1..n -> SampleTimes] : n \in 0..MaxSampleMsgs }

SampleMsgs(times) == [k \in 1..Len(times) |-> [id |-> k, time |-> times[k]]]

InitSample ==
  /\ Idle
  /\ \E times \in SampleInputs, target \in 0..MaxTarget :
       pure = [kind |-> "sample", messages |-> SampleMsgs(times), target |-> target,
               done |-> FALSE, result |-> <<>>]

\* smartSample is called and returns
SampleCall ==
  /\ pure.kind = "sample"
  /\ ~pure.done
  /\ pure' = [pure EXCEPT !.done = TRUE,
                          !.result = SmartSample(pure.messages, pure.target)]
  /\ UNCHANGED idleVars

NextSample == SampleCall

SpecSample == InitSample /\ [][NextSample]_vars

\* C6: smartSample returns at most targetCount messages, and the input
\* itself when the input has at most targetCount messages.
C6_SampleBound ==
  (pure.kind = "sample" /\ pure.done) =>
    /\ Len(pure.result) <= pure.target
    /\ Len(pure.messages) <= pure.target => pure.result = pure.messages

\* C6 witness: six messages in three blocks were cut down to a target of
\* four.
C6_Witness ==
  /\ pure.kind = "sample"
  /\ pure.done
  /\ Len(pure.messages) = 6
  /\ pure.target = 4
  /\ Len(pure.result) = 4
  /\ Len(GroupIntoBlocks(pure.messages, BLOCK_GAP_MINUTES)) = 3

\* ------------------------------------------------------------------------
\* SpecMerge: mergeSummaries.  Two implementations exist: the batching one
\* and the single-request one (public/app.js).  A partial summary is the
\* sequence of chunk numbers it covers; /api/merge answers with the
\* summary covering all of its inputs.
\* ------------------------------------------------------------------------
SINGLE_CALL_MAX == 4     \* summaries.length > 4
BATCH_SIZE == 3          \* i += 3, slice(i, i + 3)
FINAL_CALL_MAX == 3      \* firstPassResults.length > 3

MergeVariants == {"batching", "single"}

MergeAnswer(summaries) == Flatten(summaries)

Leaves(n) == [k \in 1..n |-> <<k>>]

InitMerge ==
  /\ Idle
  /\ \E v \in MergeVariants, n \in 1..MaxSummaries :
       pure = [kind |-> "merge", variant |-> v, input |-> Leaves(n),
               summaries |-> Leaves(n), batches |-> <<>>, b |-> 1,
               firstPassResults |-> <<>>, calls |-> <<>>, at |-> "enter",
               result |-> <<>>, error |-> NoValue]

\* The final fetch('/api/merge') over the given list
PostFinal(st, summaries) ==
  [st EXCEPT !.summaries = summaries,
             !.calls = Append(st.calls, summaries),
             !.at = "final"]

\* (mutant: lists of more than BATCH_SIZE - 1 summaries are batched)
MergeEntryBatchesEarly(st) ==
  IF st.variant = "batching" /\ Len(st.summaries) > BATCH_SIZE - 1
  THEN [st EXCEPT !.batches = CountChunks(st.summaries, BATCH_SIZE),
                  !.b = 1, !.firstPassResults = <<>>, !.at = "pass"]
  ELSE PostFinal(st, st.summaries)

\* (mutant: the batches hold one summary each)
MergeEntryBatchesOfOne(st) ==
  IF st.variant = "batching" /\ Len(st.summaries) > SINGLE_CALL_MAX
  THEN [st EXCEPT !.batches = CountChunks(st.summaries, 1),
                  !.b = 1, !.firstPassResults = <<>>, !.at = "pass"]
  ELSE PostFinal(st, st.summaries)

\* Entry of mergeSummaries(summaries): batch, or post the list as it is
MergeEntry(st) ==
  IF st.variant = "batching" /\ Len(st.summaries) > SINGLE_CALL_MAX
  THEN [st EXCEPT !.batches = CountChunks(st.summaries, BATCH_SIZE),
                  !.b = 1, !.firstPassResults = <<>>, !.at = "pass"]
  ELSE PostFinal(st, st.summaries)

MergeEnter ==
  /\ pure.kind = "merge"
  /\ pure.at = "enter"
  /\ pure' = MergeEntry(pure)
  /\ UNCHANGED idleVars

\* (mutant: a batch of one summary is posted like the others)
MergeBatchStepPostsSingles ==
  /\ pure.kind = "merge"
  /\ pure.at = "pass"
  /\ pure.b <= Len(pure.batches)
  /\ pure' = [pure EXCEPT !.calls = Append(@, pure.batches[pure.b]), !.at = "batchCall"]
  /\ UNCHANGED idleVars

\* One iteration of "for (const batch of batches)" up to its await
MergeBatchStep ==
  /\ pure.kind = "merge"
  /\ pure.at = "pass"
  /\ pure.b <= Len(pure.batches)
  /\ LET batch == pure.batches[pure.b]
     IN  pure' = IF Len(batch) = 1
                 THEN [pure EXCEPT !.firstPassResults = Append(@, batch[1]),
                                   !.b = @ + 1]
                 ELSE [pure EXCEPT !.calls = Append(@, batch), !.at = "batchCall"]
  /\ UNCHANGED idleVars

\* The batch request answers 200
MergeBatchOk ==
  /\ pure.kind = "merge"
  /\ pure.at = "batchCall"
  /\ pure' = [pure EXCEPT
                !.firstPassResults = Append(@, MergeAnswer(pure.batches[pure.b])),
                !.b = @ + 1, !.at = "pass"]
  /\ UNCHANGED idleVars

\* After the first pass: merge again, or post the final merge
MergePassEnd ==
  /\ pure.kind = "merge"
  /\ pure.at = "pass"
  /\ pure.b > Len(pure.batches)
  /\ pure' = IF Len(pure.firstPassResults) > FINAL_CALL_MAX
             THEN MergeEntry([pure EXCEPT !.summaries = pure.firstPassResults])
             ELSE PostFinal(pure, pure.firstPassResults)
  /\ UNCHANGED idleVars

\* The final request answers 200
MergeFinalOk ==
  /\ pure.kind = "merge"
  /\ pure.at = "final"
  /\ pure' = [pure EXCEPT !.result = <<MergeAnswer(pure.summaries)>>, !.at = "done"]
  /\ UNCHANGED idleVars

\* A request answers with an error: mergeSummaries throws
MergeCallFail(e) ==
  /\ pure.kind = "merge"
  /\ pure.at \in {"batchCall", "final"}
  /\ pure' = [pure EXCEPT !.error = e, !.at = "thrown"]
  /\ UNCHANGED idleVars

NextMerge ==
  \/ MergeEnter
  \/ MergeBatchStep
  \/ MergeBatchOk
  \/ MergePassEnd
  \/ MergeFinalOk
  \/ \E e \in MergeErrors : MergeCallFail(e)

SpecMerge == InitMerge /\ [][NextMerge]_vars

\* C7: every merge request issued by mergeSummaries carries at most four
\* summaries, however many summaries the pipeline produced.
C7_FanInBound ==
  pure.kind = "merge" =>
    \A k \in 1..Len(pure.calls) : Len(pure.calls[k]) <= SINGLE_CALL_MAX

\* ------------------------------------------------------------------------
\* Further properties of processFullMode and the token tracker
\* ------------------------------------------------------------------------
\* The largest stats.tokensUsed one call reports
WorstCallCost == CHOOSE c \in TokenCosts : \A d \in TokenCosts : d <= c

\* A step in which run r sends a summarize or merge request
Admits(r) == hist'[r].calls = hist[r].calls + 1

\* C11: whenever processFullMode issues a summarize or merge call,
\* tokensUsed is at most GROQ_TPM_LIMIT plus the worst-case cost of one call.
C11_AdmissionBound ==
  [][\A r \in Runs : Admits(r) => tokensUsed' <= GROQ_TPM_LIMIT + WorstCallCost]_vars

\* ------------------------------------------------------------------------
\* SpecQuick: the day summary from the "summarize" click to the request of
\* the quick mode (handleSummarize, showModeModal, startSummarization,
\* processQuick).  The message limits are scaled down.
\* ------------------------------------------------------------------------
MODEL_LIMITS ==
  [fast |-> ScaledFast, balanced |-> ScaledBalanced, powerful |-> ScaledPowerful]

FULL_MODE_THRESHOLD == ScaledThreshold

Models == {"fast", "balanced", "powerful"}

InitQuick ==
  /\ Idle
  /\ \E times \in SampleInputs, m \in Models :
       pure = [kind |-> "quick", messages |-> SampleMsgs(times), model |-> m,
               at |-> "dates", sent |-> <<>>, sampled |-> FALSE,
               shown |-> <<>>, error |-> NoValue]

\* handleSummarize(): click on "summarize" with a day selected
HandleSummarize ==
  /\ pure.kind = "quick"
  /\ pure.at = "dates"
  /\ pure' = IF Len(pure.messages) = 0
             THEN [pure EXCEPT !.error = "Nenhuma mensagem", !.at = "rejected"]
             ELSE IF Len(pure.messages) > FULL_MODE_THRESHOLD
             THEN [pure EXCEPT !.at = "modal"]
             ELSE [pure EXCEPT !.at = "quick"]
  /\ UNCHANGED idleVars

\* A card of the mode modal is clicked, or the modal is cancelled
ModalChoice(mode) ==
  /\ pure.kind = "quick"
  /\ pure.at = "modal"
  /\ pure' = [pure EXCEPT !.at = mode]
  /\ UNCHANGED idleVars

\* processQuick(messages) up to its await
ProcessQuick ==
  /\ pure.kind = "quick"
  /\ pure.at = "quick"
  /\ LET maxMsgs == MODEL_LIMITS[pure.model]
         sampled == Len(pure.messages) > maxMsgs
         toProcess == IF sampled THEN SmartSample(pure.messages, maxMsgs)
                      ELSE pure.messages
     IN  pure' = [pure EXCEPT !.sampled = sampled,
                              !.sent = Append(@, [kind |-> "summarize",
                                                  messages |-> toProcess]),
                              !.at = "summarize"]
  /\ UNCHANGED idleVars

\* /api/summarize answers 200: displayResult
QuickOk ==
  /\ pure.kind = "quick"
  /\ pure.at = "summarize"
  /\ pure' = [pure EXCEPT !.shown = <<pure.sent[Len(pure.sent)].messages>>,
                          !.at = "result"]
  /\ UNCHANGED idleVars

\* /api/summarize answers with an error: the catch block toasts it
QuickFail(e) ==
  /\ pure.kind = "quick"
  /\ pure.at = "summarize"
  /\ pure' = [pure EXCEPT !.error = e, !.at = "failed"]
  /\ UNCHANGED idleVars

NextQuick ==
  \/ HandleSummarize
  \/ \E mode \in {"quick", "full", "cancelled"} : ModalChoice(mode)
  \/ ProcessQuick
  \/ QuickOk
  \/ \E e \in SummarizeErrors : QuickFail(e)

SpecQuick == InitQuick /\ [][NextQuick]_vars

Range(s) == { s[k] : k \in 1..Len(s) }

SampleBlocks == GroupIntoBlocks(pure.messages, BLOCK_GAP_MINUTES)

SampleDone == pure.kind = "sample" /\ pure.done

\* C13: when the input is longer than the target, has at least two blocks
\* and the first and last block together fit the target, every message of
\* both blocks is in the output of smartSample.
C13_FirstAndLastKept ==
  ( /\ SampleDone
    /\ Len(pure.messages) > pure.target
    /\ Len(SampleBlocks) >= 2
    /\ Len(SampleBlocks[1]) + Len(SampleBlocks[Len(SampleBlocks)]) <= pure.target )
  => /\ Range(SampleBlocks[1]) \subseteq Range(pure.result)
     /\ Range(SampleBlocks[Len(SampleBlocks)]) \subseteq Range(pure.result)

\* C13 witness: 09:00 | 09:30 09:30 09:30 | 09:00 09:04 with target 4: the
\* first block (1 message) and the last (2 messages) are kept, the middle
\* block gives one message.
C13_Witness ==
  /\ SampleDone
  /\ pure.target = 4
  /\ [k \in 1..Len(pure.messages) |-> pure.messages[k].time]
       = << <<9, 0>>, <<9, 30>>, <<9, 30>>, <<9, 30>>, <<9, 0>>, <<9, 4>> >>
  /\ [k \in 1..Len(pure.result) |-> pure.result[k].id] = <<1, 5, 6, 2>>

\* ------------------------------------------------------------------------
\* SpecReentry: processFullMode entered a second time while a run is under
\* way.  handleSummarize and the cards of the mode modal have no guard
\* against a run in progress; both runs share state.processingProgress and
\* the token tracker.
\* ------------------------------------------------------------------------
ReentryShapes == { <<100, 400>>, <<101, 200>> }
ReentryCosts == { 900 }

NextReentry ==
  \/ \E r \in AllRuns, shape \in ReentryShapes : Start(r, Day(shape))
  \/ \E r \in AllRuns, tokens \in ReentryCosts : SummarizeOk(r, tokens)
  \/ \E r \in AllRuns, e \in SummarizeErrors : SummarizeFail(r, e)
  \/ \E r \in AllRuns : Tick(r)
  \/ \E r \in AllRuns, tokens \in ReentryCosts : MergeOk(r, tokens)
  \/ \E r \in AllRuns, e \in MergeErrors : MergeFail(r, e)
  \/ TokenBarTick
  \/ (now < WINDOW_MS + MaxReentryTicks * TICK_MS /\ Advance)

SpecReentry == Init /\ [][NextReentry]_vars

\* C14: at most one summarize or merge call is in flight at any moment; the
\* call in flight for a run is the one for the chunk after those already
\* summarized, and a merge call is in flight only once every chunk of the
\* run has been summarized.
C14_StrictlySequential ==
  /\ Cardinality({ r \in AllRuns : InFlight(r) }) <= 1
  /\ \A r \in AllRuns :
       /\ pc[r] = "summarize" => request[r][1].chunk = idx[r]
       /\ pc[r] = "merge" => idx[r] = Len(chunks[r])

\* ------------------------------------------------------------------------
\* The answers of the summarize endpoints as the chunk loop classifies them
\* ------------------------------------------------------------------------
\* error of the 429 answers (code RATE_LIMITED)
RateLimitedAnswers ==
  { "Rate limit exceeded. Please wait a moment and try again.",
    "Limite de requisições excedido. Aguarde um momento e tente novamente." }

\* error of the 500 answers (code SUMMARIZE_ERROR)
OtherFailureAnswers == { "Falha ao gerar resumo", "Failed to generate summary" }

\* C15: a rate-limit answer of the summarize endpoint makes the chunk loop
\* cool down and retry, never abort; any other failure answer makes it
\* abort, never cool down.
C15_RateLimitDistinguishable ==
  \A r \in Runs :
    /\ pc[r] = "rejected" => thrown[r] \notin RateLimitedAnswers
    /\ pc[r] = "cooldown" => hist[r].raised \notin OtherFailureAnswers

\* ------------------------------------------------------------------------
\* Further properties of the token tracker (checked under SpecTracker)
\* ------------------------------------------------------------------------
\* The last operation was updateTokensUsed in a window that had not expired
RecordedInWindow == hist.op = "record" /\ hist.at <= hist.reset

\* C16 as stated: inside a window every updateTokensUsed call strictly
\* increases tokensUsed.
C16_StrictlyIncreasing == RecordedInWindow => tokensUsed > hist.used

\* C16 amended: inside a window updateTokensUsed(tokens) adds tokens to
\* tokensUsed and keeps the reset time: tokensUsed never decreases, and it
\* strictly increases when tokens > 0.
C16_AddsTokens ==
  RecordedInWindow =>
    /\ tokensUsed = hist.used + hist.tokens
    /\ tokensUsed >= hist.used
    /\ hist.tokens > 0 => tokensUsed > hist.used
    /\ tokenResetTime = hist.reset

\* C16 witness: 1000 tokens recorded on top of 1000 inside the window.
C16_Witness ==
  /\ RecordedInWindow
  /\ hist.used = 1000
  /\ hist.tokens = 1000
  /\ tokensUsed = 2000

\* The page has just been loaded again with a saved tracker state
Reloaded == hist.op = "reload" /\ stored # <<>>

\* C17: a reload not later than the saved reset time restores the saved
\* tokensUsed and tokenResetTime, which are those the page had before the
\* reload; a reload after the saved reset time starts EMPTY.
C17_SurvivesReload ==
  Reloaded =>
    /\ hist.at <= stored[1].resetTime =>
         /\ tokensUsed = stored[1].tokensUsed
         /\ tokenResetTime = stored[1].resetTime
         /\ tokensUsed = hist.used
         /\ tokenResetTime = hist.reset
    /\ hist.at > stored[1].resetTime =>
         /\ tokensUsed = 0
         /\ tokenResetTime = 0

\* C17 witness: 5000 tokens recorded, then a reload 30 s into the window:
\* the 5000 and the reset time are back.
C17_Witness ==
  /\ Reloaded
  /\ hist.used = 5000
  /\ hist.at = hist.reset - 30 * TICK_MS
  /\ tokensUsed = 5000
  /\ tokenResetTime = hist.reset

\* C17 witness: a reload one second after the saved reset time starts EMPTY.
C17_WitnessExpired ==
  /\ Reloaded
  /\ stored[1].tokensUsed = 5000
  /\ hist.at = stored[1].resetTime + TICK_MS
  /\ tokensUsed = 0
  /\ tokenResetTime = 0

\* ------------------------------------------------------------------------
\* SpecStore: the in-memory chat store.  services/store.ts keeps a Map and
\* exports cleanupOldChats; dev-server.js keeps a Map and sets a timer at
\* each upload.  The clock moves in steps of ten minutes.
\* ------------------------------------------------------------------------
CLEANUP_INTERVAL == 30 * 60 * 1000
STORE_STEP_MS == 10 * 60 * 1000

StoreVariants == {"services/store.ts", "dev-server.js"}
ChatIds == 1..MaxChats

InitStore ==
  /\ Idle
  /\ \E v \in StoreVariants :
       pure = [kind |-> "store", variant |-> v, clock |-> 0,
               STORE |-> [id \in ChatIds |-> <<>>],
               timers |-> {}, issued |-> {}, got |-> <<>>]

\* POST /api/upload: a fresh id, STORE.set(id, chat); dev-server.js also
\* sets the timer that deletes the entry
StoreUpload(id) ==
  /\ pure.kind = "store"
  /\ id \notin pure.issued
  /\ pure' = [pure EXCEPT
       !.STORE[id] = <<[id |-> id, uploadedAt |-> pure.clock]>>,
       !.issued = @ \cup {id},
       !.timers = IF pure.variant = "dev-server.js"
                  THEN @ \cup {[id |-> id, due |-> pure.clock + CLEANUP_INTERVAL]}
                  ELSE @]
  /\ UNCHANGED idleVars

\* getChat(id) / STORE.get(id)
StoreGet(id) ==
  /\ pure.kind = "store"
  /\ pure' = [pure EXCEPT !.got = <<[id |-> id, at |-> pure.clock,
                                     chat |-> pure.STORE[id]]>>]
  /\ UNCHANGED idleVars

\* The Map after cleanupOldChats() at time t
CleanedStore(store, t) ==
  [id \in DOMAIN store |->
     IF store[id] # <<>> /\ t - store[id][1].uploadedAt > CLEANUP_INTERVAL
     THEN <<>> ELSE store[id]]

\* cleanupOldChats() of services/store.ts is called
StoreCleanup ==
  /\ pure.kind = "store"
  /\ pure.variant = "services/store.ts"
  /\ pure' = [pure EXCEPT !.STORE = CleanedStore(pure.STORE, pure.clock),
                          !.got = <<>>]
  /\ UNCHANGED idleVars

\* The timer of dev-server.js fires: STORE.delete(id)
StoreTimer(tm) ==
  /\ pure.kind = "store"
  /\ tm \in pure.timers
  /\ pure.clock >= tm.due
  /\ pure' = [pure EXCEPT !.STORE[tm.id] = <<>>, !.timers = @ \ {tm}]
  /\ UNCHANGED idleVars

\* Time passes; a timer that is due fires first
StoreAdvance ==
  /\ pure.kind = "store"
  /\ pure.clock < MaxStoreSteps * STORE_STEP_MS
  /\ \A tm \in pure.timers : pure.clock < tm.due
  /\ pure' = [pure EXCEPT !.clock = @ + STORE_STEP_MS]
  /\ UNCHANGED idleVars

NextStore ==
  \/ \E id \in ChatIds : StoreUpload(id)
  \/ \E id \in ChatIds : StoreGet(id)
  \/ StoreCleanup
  \/ \E tm \in pure.timers : StoreTimer(tm)
  \/ StoreAdvance

SpecStore == InitStore /\ [][NextStore]_vars

\* C18: a chat uploaded more than 30 minutes ago is no longer in the store,
\* and getChat does not return it.
C18_DiscardedAfter30Min ==
  pure.kind = "store" =>
    /\ \A id \in ChatIds :
         pure.STORE[id] # <<>> =>
           pure.clock - pure.STORE[id][1].uploadedAt <= CLEANUP_INTERVAL
    /\ (pure.got # <<>> /\ pure.got[1].chat # <<>>) =>
         pure.got[1].at - pure.got[1].chat[1].uploadedAt <= CLEANUP_INTERVAL

\* ------------------------------------------------------------------------
\* Further properties of mergeSummaries (checked under SpecMerge)
\* ------------------------------------------------------------------------
\* C19: with 2 to 4 summaries mergeSummaries issues exactly one merge call,
\* over all the summaries in their order, and returns that call's answer.
C19_SingleCallWithinFanIn ==
  ( /\ pure.kind = "merge"
    /\ Len(pure.input) >= 2
    /\ Len(pure.input) <= SINGLE_CALL_MAX )
  => /\ pure.at = "enter" => pure.calls = <<>>
     /\ pure.at # "enter" => pure.calls = <<pure.input>>
     /\ pure.at \in {"enter", "final", "done", "thrown"}
     /\ pure.at = "done" => pure.result = <<MergeAnswer(pure.calls[1])>>

\* C19 witness: the batching mergeSummaries has merged 3 summaries with one
\* call.
C19_Witness ==
  /\ pure.kind = "merge"
  /\ pure.variant = "batching"
  /\ pure.input = Leaves(3)
  /\ pure.at = "done"
  /\ pure.calls = << <<<<1>>, <<2>>, <<3>>>> >>
  /\ pure.result = << <<1, 2, 3>> >>

\* C20: tokens recorded before a window expired do not count in a later
\* window: after updateTokensUsed(t) on an expired window tokensUsed = t,
\* and after getAvailableTokens() on an expired window tokensUsed = 0.
C20_ExpiredWindowForgotten ==
  /\ (hist.op = "record" /\ hist.at > hist.reset) => tokensUsed = hist.tokens
  /\ (hist.op = "available" /\ hist.at > hist.reset) => tokensUsed = 0

\* C21: updateTokensUsed sets tokenResetTime = now + 60 s exactly when no
\* window is running (tokenResetTime < now); inside a running window it
\* leaves tokenResetTime alone and adds its tokens to tokensUsed.
C21_WindowStartsOnce ==
  hist.op = "record" =>
    /\ hist.reset < hist.at => tokenResetTime = hist.at + WINDOW_MS
    /\ hist.reset >= hist.at =>
         /\ tokenResetTime = hist.reset
         /\ tokensUsed = hist.used + hist.tokens
    /\ stored = <<[tokensUsed |-> tokensUsed, resetTime |-> tokenResetTime]>>

\* C21 witness: a recording 30 s into a window that began with 1000 tokens:
\* the reset time stays and the tokens add up.
C21_Witness ==
  /\ hist.op = "record"
  /\ hist.used = 1000
  /\ hist.tokens = 5000
  /\ hist.reset = hist.at + 30 * TICK_MS
  /\ tokenResetTime = hist.reset
  /\ tokensUsed = 6000

\* C21 witness: the first recording starts the window.
C21_WitnessStart ==
  /\ hist.op = "record"
  /\ hist.reset = 0
  /\ hist.tokens = 1000
  /\ tokenResetTime = now + WINDOW_MS
  /\ tokensUsed = 1000

\* ------------------------------------------------------------------------
\* Usage recording and budget waits of processFullMode (checked under Spec)
\* ------------------------------------------------------------------------
\* A step in which a call of run r answers with success
SuccessStep(r) ==
  \/ pc[r] = "summarize" /\ Len(progress'.summaries) = Len(progress.summaries) + 1
  \/ pc[r] = "merge" /\ pc'[r] = "done"

\* A step in which a call of run r fails
FailStep(r) ==
  \/ pc[r] = "summarize" /\ pc'[r] \in {"cooldown", "rejected"}
  \/ pc[r] = "merge" /\ pc'[r] = "failed"

\* C22: the step that handles a successful summarize or merge answer
\* records the answer's token count once (tokensUsed grows by one reported
\* count and is saved) before any further call is sent; the step that
\* handles a failed call leaves the tracker alone.
C22_UsageRecordedOnSuccess ==
  [][\A r \in Runs :
       /\ SuccessStep(r) =>
            /\ tokensUsed' - tokensUsed \in TokenCosts
            /\ stored' = <<[tokensUsed |-> tokensUsed', resetTime |-> tokenResetTime']>>
       /\ FailStep(r) => UNCHANGED trackerVars]_vars

\* C22 witness: a one-chunk run is done; its summarize call reported 900
\* tokens and its merge call 5200, on a fresh tracker.
C22_Witness ==
  /\ pc[1] = "done"
  /\ Len(chunks[1]) = 1
  /\ hist[1].calls = 2
  /\ tokensUsed = 6100

\* ---------------------------------------------------------------------
\* C23: in the token-based planner a chunk of more than one message has a
\* total token estimate (the sum of its messages' estimates, which is the
\* running currentTokens) of at most the ceiling, and a message whose own
\* estimate exceeds the ceiling is not dropped: it is a chunk by itself.
ChunkTokens(chunk) == SumSeq([j \in 1..Len(chunk) |-> MsgTokens(chunk[j])])

C24_InputOrder ==
  SampleDone =>
    /\ Range(pure.result) \subseteq Range(pure.messages)
    /\ \A i, j \in 1..Len(pure.result) : i < j => pure.result[i].id < pure.result[j].id

\* ---------------------------------------------------------------------
\* C25: when a block would overflow the remaining budget (which happens in
\* every call with more messages than the target, since the blocks cannot
\* all be taken whole), its first N messages are taken so that the total is
\* exactly the target; at most one block is included in part, as a prefix,
\* and every other included block is whole.
PartlyIncluded(block) ==
  /\ Range(block) \cap Range(pure.result) # {}
  /\ ~(Range(block) \subseteq Range(pure.result))

C25_ExactFill ==
  (SampleDone /\ Len(pure.messages) > pure.target) =>
    /\ Len(pure.result) = pure.target
    /\ Cardinality({k \in 1..Len(SampleBlocks) : PartlyIncluded(SampleBlocks[k])}) <= 1
    /\ \A k \in 1..Len(SampleBlocks) :
         PartlyIncluded(SampleBlocks[k]) =>
           \E n \in 1..Len(SampleBlocks[k]) :
             Range(SampleBlocks[k]) \cap Range(pure.result) = Range(SubSeq(SampleBlocks[k], 1, n))

\* ---------------------------------------------------------------------
\* SpecGroup: groupIntoBlocks(messages, maxGapMinutes) on its own, for
\* thresholds at, below and above the gaps of SampleTimes (0, 4, 26 and 30
\* minutes, and the negative ones)
MaxGroupMsgs == 4

GroupGaps == {0, 4, 5, 30}

GroupInputs == UNION { [1..n -> SampleTimes] : n \in 0..MaxGroupMsgs }

InitGroup ==
  /\ Idle
  /\ \E times \in GroupInputs, maxGapMinutes \in GroupGaps :
       pure = [kind |-> "group", messages |-> SampleMsgs(times),
               maxGapMinutes |-> maxGapMinutes, done |-> FALSE, result |-> <<>>]

\* groupIntoBlocks is called and returns
GroupCall ==
  /\ pure.kind = "group"
  /\ ~pure.done
  /\ pure' = [pure EXCEPT !.done = TRUE,
                          !.result = GroupIntoBlocks(pure.messages, pure.maxGapMinutes)]
  /\ UNCHANGED idleVars

NextGroup == GroupCall

SpecGroup == InitGroup /\ [][NextGroup]_vars

GroupDone == pure.kind = "group" /\ pure.done

\* The block that holds the message at input position i, the blocks being
\* laid end to end
BlockOf(blocks, i) ==
  CHOOSE k \in 1..Len(blocks) :
    /\ Len(Flatten(SubSeq(blocks, 1, k - 1))) < i
    /\ i <= Len(Flatten(SubSeq(blocks, 1, k)))

\* C26: groupIntoBlocks returns non-empty contiguous blocks whose
\* concatenation is the input (at least one block for a non-empty input,
\* none for an empty one), and two consecutive messages are in different
\* blocks exactly when the gap between them exceeds maxGapMinutes or is
\* negative.
C26_BlocksPartition ==
  GroupDone =>
    /\ \A k \in 1..Len(pure.result) : Len(pure.result[k]) >= 1
    /\ Flatten(pure.result) = pure.messages
    /\ Len(pure.messages) = 0 <=> pure.result = <<>>
    /\ \A i \in 2..Len(pure.messages) :
         LET gap == ParseTime(pure.messages[i]) - ParseTime(pure.messages[i - 1])
         IN  BlockOf(pure.result, i) # BlockOf(pure.result, i - 1)
               <=> (gap > pure.maxGapMinutes \/ gap < 0)

\* 09:00, 09:04, 09:30, 09:00 with threshold 4: the gap of 4 keeps the
\* second message in the first block, the gap of 26 and the negative gap
\* each start a block
C26_Witness ==
  /\ GroupDone
  /\ pure.maxGapMinutes = 4
  /\ [k \in 1..Len(pure.messages) |-> pure.messages[k].time]
       = << <<9, 0>>, <<9, 4>>, <<9, 30>>, <<9, 0>> >>
  /\ [k \in 1..Len(pure.result) |-> Len(pure.result[k])] = <<2, 1, 1>>

\* ---------------------------------------------------------------------
\* C27: a summarize call leaves either from the loop head, with the tracker
\* reporting at least the chunk's estimate, or from the end of the budget
\* wait, which was set to getSecondsUntilReset() and therefore ends no
\* earlier than the window; the loop head starts that wait whenever the
\* tracker reports less than the estimate.
SummarizeIssued(r) ==
  /\ pc'[r] = "summarize"
  /\ hist'[r].calls = hist[r].calls + 1

BudgetWaitStarted(r) == pc[r] # "budgetWait" /\ pc'[r] = "budgetWait"

C27_WaitsForBudget ==
  [][\A r \in Runs :
       /\ SummarizeIssued(r) =>
            \/ /\ pc[r] = "budgetWait"
               /\ seconds[r] <= 1
               /\ now >= fireAt[r]
               /\ now >= tokenResetTime
            \/ /\ pc[r] # "budgetWait"
               /\ GetAvailableTokens(Tracker, now)' >= EstimateTokens(chunks'[r][idx'[r] + 1])
       /\ BudgetWaitStarted(r) =>
            /\ GetAvailableTokens(Tracker, now)' < EstimateTokens(chunks'[r][idx'[r] + 1])
            /\ seconds'[r] = GetSecondsUntilReset(Tracker, now)'
            /\ request'[r] = <<>>]_vars

\* A summarize call just left while the tracker still reports less than
\* the chunk's estimate: it left from the end of the budget wait
C27_Witness ==
  /\ pc[1] = "summarize"
  /\ request[1][1].sentAt = now
  /\ idx[1] >= 1
  /\ GetAvailableTokens(Tracker, now) < EstimateTokens(chunks[1][idx[1] + 1])

\* ---------------------------------------------------------------------
\* SpecMergeLive: mergeSummaries with progress.  Once the function has been
\* entered its synchronous code runs on, the continuation after an await
\* runs once the awaited fetch has settled, and a fetch settles (with an
\* answer or an error): a step of the entered call is taken as long as one
\* is possible.
MergeRunning ==
  \/ MergeBatchStep
  \/ MergeBatchOk
  \/ MergePassEnd
  \/ MergeFinalOk
  \/ \E e \in MergeErrors : MergeCallFail(e)

SpecMergeLive == InitMerge /\ [][NextMerge]_vars /\ WF_vars(MergeRunning)

Batching == pure.kind = "merge" /\ pure.variant = "batching" /\ Len(pure.input) >= 2

\* A batching round yields one result per batch, fewer than it was given;
\* the final request is the only one that carries every input summary,
\* and it carries them in input order.
MergeRoundsShrink ==
  Batching =>
    /\ pure.at \in {"pass", "batchCall"} =>
         /\ Len(pure.batches) < Len(pure.summaries)
         /\ Len(pure.firstPassResults) <= Len(pure.batches)
    /\ pure.at \in {"final", "done"} =>
         /\ pure.calls[Len(pure.calls)] = pure.summaries
         /\ Flatten(pure.summaries) = Flatten(pure.input)
         /\ \A k \in 1..(Len(pure.calls) - 1) :
              Flatten(pure.calls[k]) # Flatten(pure.input)
    /\ pure.at = "done" => pure.result = <<Flatten(pure.input)>>

\* C28: for N >= 2 summaries and merge calls that all succeed,
\* mergeSummaries terminates: every batching round strictly shrinks the
\* list, the recursion ends with exactly one final merge call, and every
\* input summary reaches the final call's input through its batch.  (A run
\* ends in "done" or, only when a call answered with an error, in "thrown".)
C28_MergeTerminates ==
  /\ []MergeRoundsShrink
  /\ (Batching /\ pure.at # "enter") ~> (pure.at \in {"done", "thrown"})
  /\ [](Batching => (pure.error = NoValue <=> pure.at # "thrown"))

\* 13 summaries: a round of 5 batches (4 calls), a round of 2 batches
\* (2 calls), then the final call
C28_Witness ==
  /\ Batching
  /\ pure.at = "done"
  /\ Len(pure.input) = 13
  /\ Len(pure.calls) = 7
  /\ Len(pure.summaries) = 2
  /\ pure.result = <<Flatten(pure.input)>>

\* ---------------------------------------------------------------------
\* C29: in a batching round a batch of one summary is passed through
\* untouched and costs no merge call, a batch of two or three costs
\* exactly one call, and the results are collected in batch order.
BatchPosted == pure.at = "pass" /\ pure'.at = "batchCall"

BatchCollected == pure.at \in {"pass", "batchCall"} /\ pure'.b = pure.b + 1

C29_BatchCosts ==
  [][pure.kind = "merge" =>
       /\ BatchPosted =>
            /\ Len(pure.batches[pure.b]) \in 2..BATCH_SIZE
            /\ pure'.calls = Append(pure.calls, pure.batches[pure.b])
            /\ pure'.b = pure.b
            /\ pure'.firstPassResults = pure.firstPassResults
       /\ BatchCollected =>
            /\ Len(pure.firstPassResults) = pure.b - 1
            /\ pure'.calls = pure.calls
            /\ pure'.at = "pass"
            /\ pure.at = "pass" =>
                 /\ Len(pure.batches[pure.b]) = 1
                 /\ pure'.firstPassResults =
                      Append(pure.firstPassResults, pure.batches[pure.b][1])
            /\ pure.at = "batchCall" =>
                 /\ Len(pure.batches[pure.b]) \in 2..BATCH_SIZE
                 /\ pure.calls[Len(pure.calls)] = pure.batches[pure.b]
                 /\ pure'.firstPassResults =
                      Append(pure.firstPassResults, MergeAnswer(pure.batches[pure.b]))]_vars

\* 7 summaries, end of the round: batches of 3, 3 and 1, two calls, the
\* seventh summary passed through as the third result
C29_Witness ==
  /\ pure.kind = "merge"
  /\ pure.variant = "batching"
  /\ Len(pure.input) = 7
  /\ pure.at = "pass"
  /\ pure.b = 4
  /\ pure.calls = <<pure.batches[1], pure.batches[2]>>
  /\ pure.firstPassResults = <<Flatten(pure.batches[1]), Flatten(pure.batches[2]), pure.input[7]>>

\* ---------------------------------------------------------------------
\* C30: the summaries handed to the merge call of a run are the partial
\* summaries of that run's own chunks, one per chunk in chunk order, also
\* when a second run is started before the first has finished.
OwnSummaries(r) == [k \in 1..Len(chunks[r]) |-> Summary(r, k)]

C30_MergesOwnSummaries ==
  \A r \in AllRuns :
    pc[r] = "merge" => request[r][1].summaries = OwnSummaries(r)

\* ---------------------------------------------------------------------
\* SpecCombine: the handler of api/merge.ts up to its provider call.  A
\* summary is its length in characters; the combined text is the sequence
\* of the parts appended to it, each with the number of characters it
\* took from its summary.
\* ---------------------------------------------------------------------
MAX_INPUT_CHARS == 4000
TRUNCATE_MARGIN == 50
TRUNCATE_MIN == 100

MaxMergeParts == 3

\* Lengths around the limits: a part that fills the text exactly (3989)
\* or is one character too long (3990), and first parts that leave 101
\* (3838) or 100 (3839) characters for a truncated second one
SummaryLengths == {0, 200, 1900, 3838, 3839, 3989, 3990}

CombineInputs == UNION { [1..n -> SummaryLengths] : n \in 0..MaxMergeParts }

\* String(i + 1).length
DecimalDigits(n) == IF n < 10 THEN 1 ELSE IF n < 100 THEN 2 ELSE 3

\* `Parte ${i + 1}: ${text}\n\n`.length for a text of chars characters
PartLength(number, chars) == 6 + DecimalDigits(number) + 2 + chars + 2

\* `Parte ${i + 1}: ${text}...\n\n`.length
CutPartLength(number, chars) == 6 + DecimalDigits(number) + 2 + chars + 3 + 2

\* combined.length
TextLength(combined) ==
  SumSeq([k \in 1..Len(combined) |->
            IF combined[k].cut THEN CutPartLength(combined[k].number, combined[k].chars)
            ELSE PartLength(combined[k].number, combined[k].chars)])

\* (mutant: the truncated part is given all the room that is left)
RemainingNoMargin(combined) == MAX_INPUT_CHARS - TextLength(combined)

\* MAX_INPUT_CHARS - combined.length - 50
Remaining(combined) == MAX_INPUT_CHARS - TextLength(combined) - TRUNCATE_MARGIN

InitCombine ==
  /\ Idle
  /\ \E lengths \in CombineInputs :
       pure = [kind |-> "combine", summaries |-> lengths, i |-> 0, combined |-> <<>>,
               at |-> "loop", calls |-> 0, status |-> 0]

\* summaries.length === 0: status 400, no provider call
CombineReject ==
  /\ pure.kind = "combine"
  /\ pure.at = "loop"
  /\ Len(pure.summaries) = 0
  /\ pure' = [pure EXCEPT !.at = "answered", !.status = 400]
  /\ UNCHANGED idleVars

\* One iteration of the for loop over summaries
CombineStep ==
  /\ pure.kind = "combine"
  /\ pure.at = "loop"
  /\ pure.i < Len(pure.summaries)
  /\ LET number == pure.i + 1
         chars == pure.summaries[number]
         remaining == Remaining(pure.combined)
     IN  pure' =
           IF TextLength(pure.combined) + PartLength(number, chars) > MAX_INPUT_CHARS
           THEN [pure EXCEPT
                   !.combined = IF remaining > TRUNCATE_MIN
                                THEN Append(@, [number |-> number,
                                                chars |-> Min(chars, remaining),
                                                cut |-> TRUE])
                                ELSE @,
                   !.at = "built"]
           ELSE [pure EXCEPT
                   !.combined = Append(@, [number |-> number, chars |-> chars,
                                           cut |-> FALSE]),
                   !.i = number,
                   !.at = IF number < Len(pure.summaries) THEN "loop" ELSE "built"]
  /\ UNCHANGED idleVars

\* groq.chat.completions.create with the combined text
CombineSend ==
  /\ pure.kind = "combine"
  /\ pure.at = "built"
  /\ pure' = [pure EXCEPT !.at = "sent", !.calls = @ + 1]
  /\ UNCHANGED idleVars

NextCombine == CombineReject \/ CombineStep \/ CombineSend

SpecCombine == InitCombine /\ [][NextCombine]_vars

\* C31: the combined text sent to the provider has at most MAX_INPUT_CHARS
\* characters, is not empty, holds the parts in input order, and once a
\* summary does not go in whole (cut or left out) no later one goes in.
C31_CombinedTextBounded ==
  (pure.kind = "combine" /\ pure.at = "sent") =>
    /\ TextLength(pure.combined) <= MAX_INPUT_CHARS
    /\ Len(pure.combined) >= 1
    /\ TextLength(pure.combined) > 0
    /\ Len(pure.combined) <= Len(pure.summaries)
    /\ \A k \in 1..Len(pure.combined) :
         /\ pure.combined[k].number = k
         /\ pure.combined[k].chars <= pure.summaries[k]
         /\ k < Len(pure.combined) =>
              /\ ~pure.combined[k].cut
              /\ pure.combined[k].chars = pure.summaries[k]
         /\ pure.combined[k].cut => pure.combined[k].chars < pure.summaries[k]

\* 1900 + 1900 + 3990 characters: two parts whole, the third cut to
\* 4000 - 3822 - 50 = 128 characters
C31_Witness ==
  /\ pure.kind = "combine"
  /\ pure.at = "sent"
  /\ pure.summaries = <<1900, 1900, 3990>>
  /\ Len(pure.combined) = 3
  /\ pure.combined[3] = [number |-> 3, chars |-> 128, cut |-> TRUE]
  /\ TextLength(pure.combined) = 3964

\* 3839 characters, then 200: the room left for a cut part is 100, not
\* more, and the second summary is left out
C31_WitnessOmitted ==
  /\ pure.kind = "combine"
  /\ pure.at = "sent"
  /\ pure.summaries = <<3839, 200>>
  /\ Len(pure.combined) = 1

\* ---------------------------------------------------------------------
\* SpecEndpoint: the handler of api/summarize.ts, one request from its
\* arrival to its answer, with the provider calls it makes on the way.
\* ---------------------------------------------------------------------
MAX_TOKENS_PER_CHUNK == 4000
MAX_CHUNKS_PER_REQUEST == 1

MaxEndpointMsgs == 3

Methods == {"OPTIONS", "GET", "POST"}

\* Content lengths: 4, 2254 and 5004 tokens with a sender of 4 characters
EndpointContents == {2, 9000, 20000}

\* req.body.messages: absent, something that is not an array, or an array
EndpointBodies ==
  {[given |-> "missing", messages |-> <<>>], [given |-> "notArray", messages |-> <<>>]}
  \cup { [given |-> "array", messages |-> ChunkMsgs(contents)] :
            contents \in UNION { [1..n -> EndpointContents] : n \in 0..MaxEndpointMsgs } }

\* estimateTokens(msgText) with or without the sender's name
TextMsgTokens(msg, includeNames) ==
  IF includeNames THEN MsgTokens(msg)
  ELSE EstimateTextTokens(1 + TIME_CHARS + 2 + msg.content)

\* chunkMessages(messages, includeNames).length, from message k on with
\* open messages in currentChunk
RECURSIVE TextChunksFrom(_, _, _, _, _)
TextChunksFrom(messages, includeNames, k, open, currentTokens) ==
  IF k > Len(messages) THEN (IF open > 0 THEN 1 ELSE 0)
  ELSE LET msgTokens == TextMsgTokens(messages[k], includeNames)
       IN  IF currentTokens + msgTokens > MAX_TOKENS_PER_CHUNK /\ open > 0
           THEN 1 + TextChunksFrom(messages, includeNames, k + 1, 1, msgTokens)
           ELSE TextChunksFrom(messages, includeNames, k + 1, open + 1,
                               currentTokens + msgTokens)

TextChunks(messages, includeNames) == TextChunksFrom(messages, includeNames, 1, 0, 0)

\* (mutant: every chunk is summarized and the partial summaries merged)
CallPlanAllChunks(chunkCount) ==
  IF chunkCount = 1 THEN <<"summarize">>
  ELSE [k \in 1..chunkCount |-> "partial"] \o <<"merge">>

\* The provider calls the three branches of the handler go through
CallPlan(chunkCount) ==
  IF chunkCount = 1 THEN <<"summarize">>
  ELSE IF chunkCount <= MAX_CHUNKS_PER_REQUEST
  THEN [k \in 1..chunkCount |-> "partial"] \o <<"merge">>
  ELSE <<"sample">>

InitEndpoint ==
  /\ Idle
  /\ \E m \in Methods, b \in EndpointBodies, names \in BOOLEAN :
       pure = [kind |-> "endpoint", method |-> m, body |-> b, includeNames |-> names,
               at |-> "arrived", chunkCount |-> 0, plan |-> <<>>, calls |-> 0,
               status |-> 0]

\* The handler up to its first await, or to its early answer
EndpointHandle ==
  /\ pure.kind = "endpoint"
  /\ pure.at = "arrived"
  /\ pure' =
       IF pure.method = "OPTIONS"
       THEN [pure EXCEPT !.at = "answered", !.status = 200]
       ELSE IF pure.method # "POST"
       THEN [pure EXCEPT !.at = "answered", !.status = 405]
       ELSE IF pure.body.given # "array" \/ Len(pure.body.messages) = 0
       THEN [pure EXCEPT !.at = "answered", !.status = 400]
       ELSE LET n == TextChunks(pure.body.messages, pure.includeNames)
            IN  [pure EXCEPT !.chunkCount = n, !.plan = CallPlan(n),
                             !.calls = @ + 1, !.at = "calling"]
  /\ UNCHANGED idleVars

\* groq.chat.completions.create answers: the next call, or the 200 answer
ProviderOk ==
  /\ pure.kind = "endpoint"
  /\ pure.at = "calling"
  /\ pure' = IF Len(pure.plan) > 1
             THEN [pure EXCEPT !.plan = Tail(@), !.calls = @ + 1]
             ELSE [pure EXCEPT !.plan = <<>>, !.at = "answered", !.status = 200]
  /\ UNCHANGED idleVars

\* groq.chat.completions.create throws: the catch block answers 429 or 500
ProviderFail(status) ==
  /\ pure.kind = "endpoint"
  /\ pure.at = "calling"
  /\ pure' = [pure EXCEPT !.at = "answered", !.status = status]
  /\ UNCHANGED idleVars

NextEndpoint ==
  \/ EndpointHandle
  \/ ProviderOk
  \/ \E status \in {429, 500} : ProviderFail(status)

SpecEndpoint == InitEndpoint /\ [][NextEndpoint]_vars

C33_NoUsageWithoutWindow ==
  /\ tokenResetTime = 0 => tokensUsed = 0
  /\ tokensUsed >= 0

\* getAvailableTokens has just emptied a tracker that held 5000 tokens
C33_Witness ==
  /\ hist.op = "available"
  /\ hist.used = 5000
  /\ hist.at > hist.reset
  /\ tokenResetTime = 0
  /\ tokensUsed = 0

\* tokens recorded on an empty tracker: the window is set with them
C33_WitnessRecorded ==
  /\ hist.op = "record"
  /\ hist.reset = 0
  /\ hist.tokens = 1000
  /\ tokensUsed = 1000
  /\ tokenResetTime = hist.at + WINDOW_MS

\* ---------------------------------------------------------------------
\* SpecDays: the day checklist of the group analysis.  A day is its index
\* in state.allDates; selected is state.selectedDaysForAnalysis (each date
\* is in it at most once and its order enters no sum, so it is kept as a
\* set); checked and disabled are the checkboxes of the list as the
\* document shows them.
\* ---------------------------------------------------------------------
MSGS_PER_DAY_SAMPLING == 300

MaxMinutes == 2

\* TIME_TO_MSGS[minutes]
TIME_TO_MSGS(minutes) == 3000 * minutes

CollectionModes == {"complete", "sampling"}

\* state.allDates as message counts: a short list with a day above the
\* smallest limit, and eleven days that exceed it together in both modes
DayCountLists == { <<200, 2900, 3100>>, [k \in 1..11 |-> 400] }

\* What a day contributes in the given mode
MsgsForDay(count, mode) ==
  IF mode = "sampling" THEN Min(count, MSGS_PER_DAY_SAMPLING) ELSE count

RECURSIVE SumOver(_, _, _)
SumOver(days, allDates, mode) ==
  IF days = {} THEN 0
  ELSE LET d == CHOOSE x \in days : TRUE
       IN  MsgsForDay(allDates[d], mode) + SumOver(days \ {d}, allDates, mode)

\* usedMsgs of updateDaysChecklistDisabled and updateLimitBar
UsedMsgs(st) == SumOver(st.selected, st.allDates, st.collectionMode)

\* (mutant: no checkbox is ever disabled)
DisabledDaysNone(st) == {}

\* updateDaysChecklistDisabled(): the checkboxes disabled afterwards
DisabledDays(st) ==
  { d \in 1..Len(st.allDates) :
      /\ d \notin st.selected
      /\ UsedMsgs(st) + MsgsForDay(st.allDates[d], st.collectionMode) > st.maxMessages }

\* updateDaysChecklist(): the selection is emptied and the list rebuilt,
\* with usedMsgs = 0 throughout
UpdateDaysChecklist(st) ==
  LET cleared == [st EXCEPT !.selected = {}, !.checked = {}]
  IN  [cleared EXCEPT
         !.disabled = { d \in 1..Len(st.allDates) :
                          0 + MsgsForDay(st.allDates[d], st.collectionMode)
                            > st.maxMessages }]

\* updateTimeSlider()
UpdateTimeSlider(st, minutes) ==
  UpdateDaysChecklist([st EXCEPT !.analysisTime = minutes,
                                 !.maxMessages = TIME_TO_MSGS(minutes)])

\* showGroupAnalysisStep() has run on some list of days
InitDays ==
  /\ Idle
  /\ \E counts \in DayCountLists, minutes \in 1..MaxMinutes, mode \in CollectionModes :
       pure = UpdateTimeSlider(
                [kind |-> "days", allDates |-> counts, analysisTime |-> minutes,
                 maxMessages |-> TIME_TO_MSGS(minutes), collectionMode |-> mode,
                 selected |-> {}, checked |-> {}, disabled |-> {}],
                minutes)

\* The user changes a checkbox that is not disabled: its change listener
DayToggle(d) ==
  /\ pure.kind = "days"
  /\ d \in 1..Len(pure.allDates)
  /\ d \notin pure.disabled
  /\ LET nowChecked == d \notin pure.checked
         toggled == [pure EXCEPT
                       !.checked = IF nowChecked THEN @ \cup {d} ELSE @ \ {d},
                       !.selected = IF nowChecked THEN @ \cup {d} ELSE @ \ {d}]
     IN  pure' = [toggled EXCEPT !.disabled = DisabledDays(toggled)]
  /\ UNCHANGED idleVars

\* The time slider is moved
SliderInput(minutes) ==
  /\ pure.kind = "days"
  /\ minutes # pure.analysisTime
  /\ pure' = UpdateTimeSlider(pure, minutes)
  /\ UNCHANGED idleVars

\* The other collection mode is chosen
ModeChange(mode) ==
  /\ pure.kind = "days"
  /\ mode # pure.collectionMode
  /\ pure' = UpdateDaysChecklist([pure EXCEPT !.collectionMode = mode, !.selected = {}])
  /\ UNCHANGED idleVars

NextDays ==
  \/ \E d \in 1..Len(pure.allDates) : DayToggle(d)
  \/ \E minutes \in 1..MaxMinutes : SliderInput(minutes)
  \/ \E mode \in CollectionModes : ModeChange(mode)

SpecDays == InitDays /\ [][NextDays]_vars

DaysWithinLimit ==
  pure.kind = "days" =>
    /\ UsedMsgs(pure) <= pure.maxMessages
    /\ pure.checked = pure.selected
    /\ \A d \in 1..Len(pure.allDates) :
         (d \notin pure.selected
          /\ UsedMsgs(pure) + MsgsForDay(pure.allDates[d], pure.collectionMode)
               > pure.maxMessages)
         => d \in pure.disabled

\* C34: after any sequence of checkbox toggles, slider changes and mode
\* changes the selected days contribute at most state.maxMessages (their
\* message count, or min(count, 300) in sampling mode); a day whose
\* addition would exceed the limit is disabled; slider and mode changes
\* empty the selection.
C34_SelectionWithinLimit ==
  /\ []DaysWithinLimit
  /\ [][(pure.kind = "days" /\ (pure'.maxMessages # pure.maxMessages
                                 \/ pure'.collectionMode # pure.collectionMode))
        => pure'.selected = {}]_vars

\* Sampling mode, 3000 messages allowed: ten of the eleven days are
\* selected (10 x 300) and the eleventh is disabled
C34_Witness ==
  /\ pure.kind = "days"
  /\ pure.collectionMode = "sampling"
  /\ pure.maxMessages = 3000
  /\ Cardinality(pure.selected) = 10
  /\ UsedMsgs(pure) = 3000
  /\ Cardinality(pure.disabled) = 1

\* ---------------------------------------------------------------------
\* SpecLocal: the chunk loop of processFull, which counts the tokens of
\* its own run in a local variable.  clock is the time in ms since the
\* run began; issuedWith is the counter's value at each summarize call and
\* waitFrom the time the last wait began.
\* ---------------------------------------------------------------------
TPM_LIMIT == 70000
LOCAL_WAIT_MS == 60000

MaxLocalChunks == 4
MaxLocalSteps == 8

\* TPM_LIMIT * 0.9
LocalThreshold == (TPM_LIMIT * 9) \div 10

\* result.stats?.tokensUsed || 0 of an answer
LocalCosts == {0, 30000, 33000, 64000}

LocalSteps == {LOCAL_WAIT_MS \div 2}

\* (mutant: the loop never waits)
MustWaitNever(used, i, n) == FALSE

\* tokensUsed > TPM_LIMIT * 0.9 && i < chunks.length - 1
MustWait(used, i, n) == used > LocalThreshold /\ i < n - 1

\* await summarizeChunk(chunks[i], true): the request leaves
LocalIssue(st, i) ==
  [st EXCEPT !.i = i, !.at = "summarize",
             !.issuedWith = Append(@, st.tokensUsed)]

\* The head of the for loop at index i
LocalEnter(st, i) ==
  IF i < st.n THEN LocalIssue(st, i) ELSE [st EXCEPT !.i = i, !.at = "merging"]

InitLocal ==
  /\ Idle
  /\ \E n \in 1..MaxLocalChunks :
       pure = LocalEnter([kind |-> "local", n |-> n, i |-> 0, tokensUsed |-> 0,
                          summaries |-> 0, at |-> "start", clock |-> 0, timerAt |-> 0,
                          waits |-> 0, waitFrom |-> 0, issuedWith |-> <<>>], 0)

\* The summarize call of chunk i answers
LocalSummarizeOk(tokens) ==
  /\ pure.kind = "local"
  /\ pure.at = "summarize"
  /\ LET counted == [pure EXCEPT !.summaries = @ + 1, !.tokensUsed = @ + tokens]
     IN  pure' = IF MustWait(counted.tokensUsed, pure.i, pure.n)
                 THEN [counted EXCEPT !.at = "waiting",
                                      !.timerAt = pure.clock + LOCAL_WAIT_MS,
                                      !.waitFrom = pure.clock,
                                      !.waits = @ + 1]
                 ELSE LocalEnter(counted, pure.i + 1)
  /\ UNCHANGED idleVars

\* The summarize call throws: the catch block ends the run
LocalSummarizeFail ==
  /\ pure.kind = "local"
  /\ pure.at = "summarize"
  /\ pure' = [pure EXCEPT !.at = "failed"]
  /\ UNCHANGED idleVars

\* The timer of the 60 s wait fires: the counter is reset, the loop goes on
LocalTimer ==
  /\ pure.kind = "local"
  /\ pure.at = "waiting"
  /\ pure.clock >= pure.timerAt
  /\ pure' = LocalEnter([pure EXCEPT !.tokensUsed = 0], pure.i + 1)
  /\ UNCHANGED idleVars

\* Time passes while a call or the wait is pending
LocalAdvance(d) ==
  /\ pure.kind = "local"
  /\ pure.at \in {"summarize", "waiting"}
  /\ pure.at = "waiting" => pure.clock < pure.timerAt
  /\ pure.clock + d <= MaxLocalSteps * LOCAL_WAIT_MS
  /\ pure' = [pure EXCEPT !.clock = @ + d]
  /\ UNCHANGED idleVars

NextLocal ==
  \/ \E tokens \in LocalCosts : LocalSummarizeOk(tokens)
  \/ LocalSummarizeFail
  \/ LocalTimer
  \/ \E d \in LocalSteps : LocalAdvance(d)

SpecLocal == InitLocal /\ [][NextLocal]_vars

LocalCallsWithinThreshold ==
  pure.kind = "local" =>
    /\ \A k \in 1..Len(pure.issuedWith) : pure.issuedWith[k] <= LocalThreshold
    /\ pure.at = "waiting" => (pure.tokensUsed > LocalThreshold /\ pure.i < pure.n - 1)
    /\ pure.at = "merging" => (pure.summaries = pure.n /\ pure.waits <= pure.n - 1)

\* C35: in processFull a summarize call for a chunk after the first leaves
\* only with the local counter at or below 90% of TPM_LIMIT; once the
\* counter exceeds that and chunks remain, the loop waits 60 s and resets
\* the counter to 0 before the next call; it never waits after the last
\* chunk.
C35_LocalCounterWait ==
  /\ []LocalCallsWithinThreshold
  /\ [][pure.kind = "local" =>
          /\ (pure.at = "summarize" /\ pure'.summaries = pure.summaries + 1
              /\ pure'.tokensUsed > LocalThreshold) =>
               IF pure.i < pure.n - 1
               THEN pure'.at = "waiting" /\ Len(pure'.issuedWith) = Len(pure.issuedWith)
               ELSE pure'.at = "merging"
          /\ (pure.at = "waiting" /\ pure'.at # "waiting") =>
               /\ pure'.at = "summarize"
               /\ pure'.i = pure.i + 1
               /\ pure'.tokensUsed = 0
               /\ pure'.clock >= pure.waitFrom + LOCAL_WAIT_MS]_vars

\* Three chunks answering 33000 tokens each: the second answer takes the
\* counter to 66000, the loop waits, and the third call leaves with 0
C35_Witness ==
  /\ pure.kind = "local"
  /\ pure.n = 3
  /\ pure.at = "summarize"
  /\ pure.i = 2
  /\ pure.waits = 1
  /\ pure.issuedWith = <<0, 33000, 0>>
  /\ pure.clock >= LOCAL_WAIT_MS

\* The last answer takes the counter over the threshold: no wait follows
C35_WitnessLast ==
  /\ pure.kind = "local"
  /\ pure.n = 2
  /\ pure.at = "merging"
  /\ pure.tokensUsed = 66000
  /\ pure.waits = 0

\* ---------------------------------------------------------------------
\* SpecWaitLive: one call of waitWithCountdown(seconds, message).  ticks
\* counts the callbacks of the interval, shown lists the countdown values
\* passed to updateProgressUI.  An interval that has not been cleared
\* fires again.
\* ---------------------------------------------------------------------
MaxWaitSeconds == 20

\* (mutant: the interval is left running when the promise resolves)
WaitStepKeepsTimer(st) ==
  LET left == st.left - 1
  IN  IF left <= 0
      THEN [st EXCEPT !.left = left, !.ticks = @ + 1, !.resolved = TRUE]
      ELSE [st EXCEPT !.left = left, !.ticks = @ + 1, !.shown = Append(@, left)]

\* The callback of setInterval
WaitStep(st) ==
  LET left == st.left - 1
  IN  IF left <= 0
      THEN [st EXCEPT !.left = left, !.ticks = @ + 1, !.timer = FALSE,
                      !.resolved = TRUE]
      ELSE [st EXCEPT !.left = left, !.ticks = @ + 1, !.shown = Append(@, left)]

\* waitWithCountdown(seconds, message) has been called: the interval is set
InitWait ==
  /\ Idle
  /\ \E s \in (0 - MaxWaitSeconds)..MaxWaitSeconds :
       pure = [kind |-> "wait", seconds |-> s, left |-> s, ticks |-> 0,
               shown |-> <<>>, timer |-> TRUE, resolved |-> FALSE]

\* One second later the interval fires
WaitTick ==
  /\ pure.kind = "wait"
  /\ pure.timer
  /\ pure.ticks <= MaxWaitSeconds + 1
  /\ pure' = WaitStep(pure)
  /\ UNCHANGED idleVars

NextWait == WaitTick

SpecWaitLive == InitWait /\ [][NextWait]_vars /\ WF_vars(WaitTick)

WaitCounts ==
  pure.kind = "wait" =>
    /\ pure.ticks <= Max(1, pure.seconds)
    /\ pure.resolved <=> pure.ticks = Max(1, pure.seconds)
    /\ pure.timer <=> ~pure.resolved
    /\ Len(pure.shown) = IF pure.resolved THEN pure.ticks - 1 ELSE pure.ticks
    /\ \A k \in 1..Len(pure.shown) : pure.shown[k] = pure.seconds - k

\* C36: waitWithCountdown always resolves, for every integer seconds
\* (0 and negative ones too): after exactly max(1, seconds) ticks, with a
\* progress update on every tick but the last, and with its timer stopped.
C36_CountdownResolves ==
  /\ []WaitCounts
  /\ <>(pure.kind = "wait" /\ pure.resolved)

\* waitWithCountdown(0) resolved on its first tick, nothing shown
C36_Witness ==
  /\ pure.kind = "wait"
  /\ pure.seconds = 0
  /\ pure.resolved
  /\ pure.ticks = 1
  /\ pure.shown = <<>>
  /\ ~pure.timer

\* waitWithCountdown(3): 2 and 1 shown, resolved on the third tick
C36_WitnessThree ==
  /\ pure.kind = "wait"
  /\ pure.seconds = 3
  /\ pure.resolved
  /\ pure.ticks = 3
  /\ pure.shown = <<2, 1>>

====
